---- MODULE Spec2Model ----
(***************************************************************************)
(* A model of Cython/Compiler/Main.py: the Context's module registry and   *)
(* find_module, the include-directory search, the staleness check, and     *)
(* run_pipeline / compile_multiple with the error teardown.                *)
(*                                                                         *)
(* Text is modelled as a sequence of tokens.  A token is one piece of a    *)
(* string of a single lexical class: a run of identifier letters ("a",     *)
(* "b", "__init__"), a digit run ("1"), a dash, a dot, a newline, or a     *)
(* file suffix (".pxd").  A path is a sequence of components, each a       *)
(* token sequence; os.path.join appends a component.                       *)
(***************************************************************************)
EXTENDS Naturals, Integers, Sequences, FiniteSets, TLC

VARIABLES
    modules,        \* Context.modules: top-level name -> scope id
    scopes,         \* the heap of scope objects, a scope's id is its index
    pxds,           \* Context.pxds: module_name -> scope id of the parsed pxd
    num_errors,     \* Errors.num_errors
    stack,          \* find_module calls suspended inside process_pxd
    fs,             \* the filesystem: path -> [mtime, mode, content]
    search_cache,   \* the memo table of search_include_directories
    cimport_from_pyx, \* Options.cimport_from_pyx
    requests,       \* what the callers ask for: module names, source lists
    calls,          \* number of entry-point calls made so far
    hist,           \* history: per qualified name, searches / finds / parses
    last,           \* observation of the last find_module call that left
    options,        \* the CompilationOptions of a compile_multiple call
    batch,          \* the locals of compile_multiple: sources, processed, ...
    rp,             \* observation of the last run_pipeline execution
    audit,          \* history: per source path, staleness verdict and runs
    language_level, \* Context.language_level
    future_directives \* Context.future_directives

vars == <<modules, scopes, pxds, num_errors, stack, fs, search_cache,
          cimport_from_pyx, requests, calls, hist, last,
          options, batch, rp, audit, language_level, future_directives>>

ctxvars == <<modules, scopes, pxds, stack, search_cache, cimport_from_pyx,
             requests, calls, hist, last>>
batchvars == <<options, batch, rp, audit>>
langvars == <<language_level, future_directives>>

\* ------------------------------------------------------------------ bounds
MaxCalls == 3
MaxDepth == 2

\* ------------------------------------------------------------------ text
NoPath == <<>>
NoScope == 0
\* Context.language_level = None
NoLevel == 0

Letters == {"a", "b", "__init__", "__builtin__", "builtins", "cython", "_"}
Digits == {"1"}

IsIdentStart(c) == c \in Letters
IsIdentChar(c) == c \in Letters \cup Digits

\* [A-Za-z_][A-Za-z0-9_]*
IsIdentifier(s) ==
    /\ Len(s) > 0
    /\ IsIdentStart(s[1])
    /\ \A i \in 2..Len(s) : IsIdentChar(s[i])

\* str.split("."): the pieces between the dots, empty pieces kept
RECURSIVE split_dot(_)
split_dot(s) ==
    IF \A i \in 1..Len(s) : s[i] # "."
    THEN <<s>>
    ELSE LET i == CHOOSE k \in 1..Len(s) :
                      s[k] = "." /\ \A j \in 1..(k-1) : s[j] # "."
         IN <<SubSeq(s, 1, i-1)>> \o split_dot(SubSeq(s, i+1, Len(s)))

\* the grammar identifier(.identifier)*
MatchesGrammar(s) ==
    LET parts == split_dot(s)
    IN \A i \in 1..Len(parts) : IsIdentifier(parts[i])

\* module_name_pattern.match(s): re.match anchors at the start; "$" matches at
\* the end of the string and also just before a newline that ends the string.
module_name_pattern_match(s) ==
    \/ MatchesGrammar(s)
    \/ /\ Len(s) > 0
       /\ s[Len(s)] = "\n"
       /\ MatchesGrammar(SubSeq(s, 1, Len(s) - 1))

\* name + suffix
Cat(name, suffix) == IF suffix = "" THEN name ELSE Append(name, suffix)

\* "." joined components
RECURSIVE join_dot(_)
join_dot(parts) ==
    IF Len(parts) = 0 THEN <<>>
    ELSE IF Len(parts) = 1 THEN parts[1]
    ELSE parts[1] \o <<".">> \o join_dot(Tail(parts))

\* ------------------------------------------------------------------ paths
D(s) == <<s>>
join(dir, component) == Append(dir, component)
dirname(path) == IF Len(path) = 0 THEN path ELSE SubSeq(path, 1, Len(path) - 1)
basename(path) == IF Len(path) = 0 THEN <<>> ELSE path[Len(path)]
exists(F, path) == path \in DOMAIN F

PACKAGE_SUFFIXES == {".py", ".pyc", ".pyx", ".pxd"}

\* Utils.is_package_dir: the directory holds an __init__ file
is_package_dir(F, dir) ==
    \E s \in PACKAGE_SUFFIXES : exists(F, join(dir, <<"__init__", s>>))

\* Utils.check_package_dir: every package of the chain is a package directory
RECURSIVE check_package_dir(_, _, _)
check_package_dir(F, dir, package_names) ==
    IF Len(package_names) = 0 THEN dir
    ELSE LET d == join(dir, package_names[1])
         IN IF ~is_package_dir(F, d) THEN NoPath
            ELSE check_package_dir(F, d, Tail(package_names))

\* Utils.find_root_package_dir: climb while the directory is a package
RECURSIVE find_root_package_dir(_, _)
find_root_package_dir(F, file_path) ==
    LET dir == dirname(file_path)
    IN IF file_path = dir THEN dir
       ELSE IF is_package_dir(F, dir) THEN find_root_package_dir(F, dir)
       ELSE dir

\* path.endswith(Utils.PACKAGE_FILES)
endswith_PACKAGE_FILES(path) ==
    LET f == basename(path)
    IN /\ Len(f) >= 2
       /\ f[Len(f) - 1] = "__init__"
       /\ f[Len(f)] \in PACKAGE_SUFFIXES

\* ------------------------------------------------------------------ search
Dir(s) == <<D(s)>>

\* the Context's configured include path, sys.path and the bundled directory
include_directories == <<Dir("inc"), Dir("lib")>>
sys_path_dirs == <<Dir("site")>>
standard_include_path == Dir("Includes")

\* a source position: none, or a position in a file; the staleness check hands
\* in a list holding a plain path string instead of a position
NoPos == [kind |-> "None", filename |-> NoPath]
FilePos(p) == [kind |-> "FileSourceDescriptor", filename |-> p]
StrPos(p) == [kind |-> "str", filename |-> p]

\* the scan of one directory (the body of the for loop): the path found, or
\* NoPath, with the number of os.path.exists probes made
scan_dir(F, dir, qualified_name, suffix, include) ==
    LET dotted_filename == Cat(qualified_name, suffix)
        names == split_dot(qualified_name)
        package_names == SubSeq(names, 1, Len(names) - 1)
        module_name == names[Len(names)]
        module_filename == Cat(module_name, suffix)
        package_filename == Cat(<<"__init__">>, suffix)
        p1 == join(dir, dotted_filename)
        package_dir == check_package_dir(F, dir, package_names)
        p2 == join(package_dir, module_filename)
        p3 == join(join(package_dir, module_name), package_filename)
    IN IF exists(F, p1) THEN [path |-> p1, probes |-> 1]
       ELSE IF include \/ package_dir = NoPath
       THEN [path |-> NoPath, probes |-> 1]
       ELSE IF exists(F, p2) THEN [path |-> p2, probes |-> 2]
       ELSE IF exists(F, p3) THEN [path |-> p3, probes |-> 3]
       ELSE [path |-> NoPath, probes |-> 3]

RECURSIVE scan_dirs(_, _, _, _, _, _)
scan_dirs(F, dirs, i, qualified_name, suffix, include) ==
    IF i > Len(dirs) THEN [path |-> NoPath, probes |-> 0]
    ELSE LET here == scan_dir(F, dirs[i], qualified_name, suffix, include)
         IN IF here.path # NoPath THEN here
            ELSE LET rest == scan_dirs(F, dirs, i + 1, qualified_name,
                                       suffix, include)
                 IN [path |-> rest.path,
                     probes |-> here.probes + rest.probes]

\* the body of the module-level search_include_directories
search_body(F, dirs, qualified_name, suffix, pos, include) ==
    IF pos # NoPos /\ pos.kind # "FileSourceDescriptor"
    THEN [status |-> "RuntimeError", path |-> NoPath, probes |-> 0]
    ELSE LET first == IF include THEN dirname(pos.filename)
                      ELSE find_root_package_dir(F, pos.filename)
             all == IF pos # NoPos THEN <<first>> \o dirs ELSE dirs
             found == scan_dirs(F, all, 1, qualified_name, suffix, include)
         IN [status |-> "ok", path |-> found.path, probes |-> found.probes]

\* @Utils.cached_function storing only the results that are a path
cached_function_store_mutant_found_only(cache, key, r) ==
    [status |-> r.status, path |-> r.path, probes |-> r.probes,
     cache |-> IF r.status = "ok" /\ r.path # NoPath
               THEN (key :> r.path) @@ cache ELSE cache]

\* @Utils.cached_function: the result r of a call that returned is stored
cached_function_store(cache, key, r) ==
    [status |-> r.status, path |-> r.path, probes |-> r.probes,
     cache |-> IF r.status = "ok" THEN (key :> r.path) @@ cache ELSE cache]

\* @Utils.cached_function: the result of an argument tuple is computed once
search_include_directories(cache, F, dirs, qualified_name, suffix, pos, include) ==
    LET key == <<dirs, qualified_name, suffix, pos, include>>
    IN IF key \in DOMAIN cache
       THEN [status |-> "ok", path |-> cache[key], probes |-> 0,
             cache |-> cache]
       ELSE cached_function_store(cache, key,
                search_body(F, dirs, qualified_name, suffix, pos, include))

\* Context.search_include_directories with the standard directory put first
Context_search_include_directories_mutant_standard_first(cache, F, qualified_name, suffix, pos, include, sys_path) ==
    LET include_dirs == <<standard_include_path>>
                        \o (IF sys_path
                            THEN include_directories \o sys_path_dirs
                            ELSE include_directories)
    IN search_include_directories(cache, F, include_dirs, qualified_name,
                                  suffix, pos, include)

\* Context.search_include_directories
Context_search_include_directories(cache, F, qualified_name, suffix, pos, include, sys_path) ==
    LET include_dirs == (IF sys_path
                         THEN include_directories \o sys_path_dirs
                         ELSE include_directories)
                        \o <<standard_include_path>>
    IN search_include_directories(cache, F, include_dirs, qualified_name,
                                  suffix, pos, include)

\* Context.find_pyx_file
find_pyx_file(cache, F, qualified_name, pos) ==
    Context_search_include_directories(cache, F, qualified_name, ".pyx", pos,
                                       FALSE, FALSE)

\* line 234: the .pyx search made after the .pxd search pxd found nothing
find_pxd_file_pyx(pxd, pyx) == [pyx EXCEPT !.probes = pxd.probes + pyx.probes]

\* lines 234-236, pxd being the result of the search of line 233
find_pxd_file_234(pxd, F, from_pyx, qualified_name, pos) ==
    IF pxd.status = "ok" /\ pxd.path = NoPath /\ from_pyx
    THEN find_pxd_file_pyx(pxd, find_pyx_file(pxd.cache, F, qualified_name, pos))
    ELSE pxd

\* Context.find_pxd_file
find_pxd_file(cache, F, from_pyx, qualified_name, pos, sys_path) ==
    find_pxd_file_234(
        Context_search_include_directories(cache, F, qualified_name, ".pxd",
                                           pos, FALSE, sys_path),
        F, from_pyx, qualified_name, pos)

\* ------------------------------------------------------------------ scopes
\* A scope object: ModuleScope(name, parent_module, context).  The heap is
\* the sequence `scopes`; H = [modules, scopes] is threaded through the
\* operations that may create a scope.
NewScope(S, name, parent) ==
    [name |-> name,
     parent |-> parent,
     qualified_name |-> IF parent = NoScope THEN name
                        ELSE S[parent].qualified_name \o <<".">> \o name,
     pxd_file_loaded |-> FALSE,
     module_entries |-> <<>>]

\* ModuleScope.qualify_name
qualify_name(S, sid, name) == S[sid].qualified_name \o <<".">> \o name

first_component(name) == split_dot(name)[1]
rest_components(name) == join_dot(Tail(split_dot(name)))
has_dot(name) == \E i \in 1..Len(name) : name[i] = "."

\* ModuleScope.lookup_submodule: the registered child, or None
RECURSIVE ModuleScope_lookup_submodule(_, _, _)
ModuleScope_lookup_submodule(S, sid, name) ==
    LET head == IF has_dot(name) THEN first_component(name) ELSE name
        entries == S[sid].module_entries
        module == IF head \in DOMAIN entries THEN entries[head] ELSE NoScope
    IN IF has_dot(name) /\ module # NoScope
       THEN ModuleScope_lookup_submodule(S, module, rest_components(name))
       ELSE module

\* ModuleScope.find_submodule: the registered child, created when missing
RECURSIVE ModuleScope_find_submodule(_, _, _)
ModuleScope_find_submodule(H, sid, name) ==
    LET head == IF has_dot(name) THEN first_component(name) ELSE name
        found == ModuleScope_lookup_submodule(H.scopes, sid, head)
        id == Len(H.scopes) + 1
        H1 == IF found # NoScope THEN H
              ELSE [H EXCEPT
                     !.scopes = Append(
                         [H.scopes EXCEPT ![sid].module_entries =
                              (head :> id) @@ H.scopes[sid].module_entries],
                         NewScope(H.scopes, head, sid))]
        scope == IF found # NoScope THEN found ELSE id
    IN IF has_dot(name)
       THEN ModuleScope_find_submodule(H1, scope, rest_components(name))
       ELSE [heap |-> H1, scope |-> scope]

\* Context.lookup_submodule
Context_lookup_submodule(H, name) ==
    IF name \in DOMAIN H.modules THEN H.modules[name] ELSE NoScope

\* Context.find_submodule
Context_find_submodule_mutant_always_new(H, name) ==
    LET id == Len(H.scopes) + 1
    IN [heap |-> [modules |-> (name :> id) @@ H.modules,
                  scopes |-> Append(H.scopes,
                                    NewScope(H.scopes, name, NoScope))],
        scope |-> id]

Context_find_submodule(H, name) ==
    LET scope == Context_lookup_submodule(H, name)
        id == Len(H.scopes) + 1
    IN IF scope # NoScope THEN [heap |-> H, scope |-> scope]
       ELSE [heap |-> [modules |-> (name :> id) @@ H.modules,
                       scopes |-> Append(H.scopes,
                                         NewScope(H.scopes, name, NoScope))],
             scope |-> id]

\* scope = self; for name in qualified_name.split("."): scope = scope.find_submodule(name)
RECURSIVE walk_submodules(_, _, _)
walk_submodules(H, scope, names) ==
    IF Len(names) = 0 THEN [heap |-> H, scope |-> scope]
    ELSE LET c == IF scope = NoScope
                  THEN Context_find_submodule(H, names[1])
                  ELSE ModuleScope_find_submodule(H, scope, names[1])
         IN walk_submodules(c.heap, c.scope, Tail(names))

\* ------------------------------------------------------------------ find_module
\* Errors.error(pos, message): the diagnostic is reported and counted
error(n) == n + 1

\* line 186: the declaration file of the scope is still to be loaded
pxd_not_loaded_mutant_always(S, scope) == TRUE

pxd_not_loaded(S, scope) == ~S[scope].pxd_file_loaded

\* lines 200 and 207: scope.pxd_file_loaded = True
set_pxd_file_loaded(S, scope) == [S EXCEPT ![scope].pxd_file_loaded = TRUE]

\* lines 220-221: except CompileError: pass
except_CompileError_mutant_reset(S, scope) ==
    [S EXCEPT ![scope].pxd_file_loaded = FALSE]

except_CompileError(S, scope) == S

\* line 222: return scope
return_scope_mutant_none_when_missing(scope, missing) ==
    IF missing THEN NoScope ELSE scope

return_scope(scope, missing) == scope

\* a search that was not made
NoSearch(cache, path) ==
    [status |-> "ok", path |-> path, probes |-> 0, cache |-> cache]

\* lines 206-222 with line 207 moved behind the parse: the flag is not set
\* when process_pxd is entered
find_module_206_mutant_flag_after_parse(H, scope, r1, r2, r3, errs, qualified_name0, qualified_name, rel_search, unloaded, search2, missing, need_pxd) ==
    LET reported == missing
                    /\ ~(r3.path # NoPath /\ endswith_PACKAGE_FILES(r3.path))
        parse == unloaded /\ r2.path # NoPath
    IN [status |-> IF parse THEN "parsing" ELSE "returned",
        heap |-> [modules |-> H.modules,
                  scopes |-> IF missing
                             THEN set_pxd_file_loaded(H.scopes, scope)
                             ELSE H.scopes],
        cache |-> r3.cache,
        num_errors |-> IF reported THEN error(errs) ELSE errs,
        scope |-> IF parse THEN scope ELSE return_scope(scope, missing),
        qualified_name0 |-> qualified_name0,
        qualified_name |-> qualified_name,
        rel_search |-> rel_search, rel_found |-> rel_search /\ r1.path # NoPath,
        rel_path |-> r1.path,
        search2 |-> search2, found2 |-> search2 /\ r2.path # NoPath,
        sys_path2 |-> need_pxd,
        missing |-> missing, reported |-> reported,
        probes |-> r1.probes + r2.probes + r3.probes]

\* lines 206-222 and the result of the call; r3 is the search for a .py file
\* made when a required declaration file is missing (line 198)
find_module_206(H, scope, r1, r2, r3, errs, qualified_name0, qualified_name, rel_search, unloaded, search2, missing, need_pxd) ==
    LET reported == missing
                    /\ ~(r3.path # NoPath /\ endswith_PACKAGE_FILES(r3.path))
        parse == unloaded /\ r2.path # NoPath
    IN [status |-> IF parse THEN "parsing" ELSE "returned",
        heap |-> [modules |-> H.modules,
                  scopes |-> IF missing \/ parse
                             THEN set_pxd_file_loaded(H.scopes, scope)
                             ELSE H.scopes],
        cache |-> r3.cache,
        num_errors |-> IF reported THEN error(errs) ELSE errs,
        scope |-> IF parse THEN scope ELSE return_scope(scope, missing),
        qualified_name0 |-> qualified_name0,
        qualified_name |-> qualified_name,
        rel_search |-> rel_search, rel_found |-> rel_search /\ r1.path # NoPath,
        rel_path |-> r1.path,
        search2 |-> search2, found2 |-> search2 /\ r2.path # NoPath,
        sys_path2 |-> need_pxd,
        missing |-> missing, reported |-> reported,
        probes |-> r1.probes + r2.probes + r3.probes]

\* line 197 without "and need_pxd": any miss counts as a confirmed absence
find_module_195_mutant_any_miss(H, scope, r1, r2, F, errs, qualified_name0, qualified_name, rel_search, unloaded, search2, pos, need_pxd) ==
    LET missing == search2 /\ r2.path = NoPath
    IN find_module_206(H, scope, r1, r2,
           IF missing
           THEN Context_search_include_directories(r2.cache, F, qualified_name,
                                                   ".py", pos, FALSE, FALSE)
           ELSE NoSearch(r2.cache, NoPath),
           errs, qualified_name0, qualified_name, rel_search, unloaded,
           search2, missing, need_pxd)

\* lines 195-205; r2 is the search of line 194, or the file found before
find_module_195(H, scope, r1, r2, F, errs, qualified_name0, qualified_name, rel_search, unloaded, search2, pos, need_pxd) ==
    LET missing == search2 /\ r2.path = NoPath /\ need_pxd
    IN find_module_206(H, scope, r1, r2,
           IF missing
           THEN Context_search_include_directories(r2.cache, F, qualified_name,
                                                   ".py", pos, FALSE, FALSE)
           ELSE NoSearch(r2.cache, NoPath),
           errs, qualified_name0, qualified_name, rel_search, unloaded,
           search2, missing, need_pxd)

\* lines 186-194; c2 is the scope the lookups ended at, with the heap
find_module_186(c2, r1, F, from_pyx, errs, qualified_name0, qualified_name, rel_search, pos, need_pxd) ==
    LET unloaded == pxd_not_loaded(c2.heap.scopes, c2.scope)
        search2 == unloaded /\ r1.path = NoPath
    IN find_module_195(c2.heap, c2.scope, r1,
           IF search2
           THEN find_pxd_file(r1.cache, F, from_pyx, qualified_name, pos,
                              need_pxd)
           ELSE NoSearch(r1.cache, r1.path),
           F, errs, qualified_name0, qualified_name, rel_search, unloaded,
           search2, pos, need_pxd)

\* lines 175-182: the absolute lookup; c1 is what the relative lookup gave
find_module_175(c1, r1, F, from_pyx, errs, module_name, qualified_name0, rel_search, pos, need_pxd, absolute_fallback) ==
    LET absolute == c1.scope = NoScope
        qualified_name == IF absolute /\ absolute_fallback
                          THEN module_name ELSE qualified_name0
    IN find_module_186(
           IF absolute
           THEN walk_submodules(c1.heap, NoScope, split_dot(qualified_name))
           ELSE c1,
           r1, F, from_pyx, errs, qualified_name0, qualified_name, rel_search,
           pos, need_pxd)

\* lines 173-174 without the test of pxd_pathname: the child is created
\* whatever the search of line 172 gave
find_module_172_mutant_always_create(H0, looked, r1, F, from_pyx, errs, module_name, relative_to, qualified_name0, rel_search, pos, need_pxd, absolute_fallback) ==
    find_module_175(
        IF rel_search
        THEN ModuleScope_find_submodule(H0, relative_to, module_name)
        ELSE [heap |-> H0, scope |-> looked],
        r1, F, from_pyx, errs, module_name, qualified_name0, rel_search, pos,
        need_pxd, absolute_fallback)

\* lines 172-174; r1 is the search of line 172, looked the registered child
find_module_172(H0, looked, r1, F, from_pyx, errs, module_name, relative_to, qualified_name0, rel_search, pos, need_pxd, absolute_fallback) ==
    find_module_175(
        IF rel_search /\ r1.path # NoPath
        THEN ModuleScope_find_submodule(H0, relative_to, module_name)
        ELSE [heap |-> H0, scope |-> looked],
        r1, F, from_pyx, errs, module_name, qualified_name0, rel_search, pos,
        need_pxd, absolute_fallback)

\* lines 167-171: the relative lookup; looked is the registered child
find_module_167(H0, looked, cache, F, from_pyx, errs, module_name, relative_to, qualified_name0, pos, need_pxd, absolute_fallback) ==
    LET rel_search == relative_to # NoScope /\ looked = NoScope
    IN find_module_172(H0, looked,
           IF rel_search
           THEN find_pxd_file(cache, F, from_pyx, qualified_name0, pos, TRUE)
           ELSE NoSearch(cache, NoPath),
           F, from_pyx, errs, module_name, relative_to, qualified_name0,
           rel_search, pos, need_pxd, absolute_fallback)

\* Context.find_module up to the call of process_pxd.  The result says how
\* the call leaves: "CompileError" (the structural error of line 164),
\* "returned" (line 222 without a declaration file to parse) or "parsing"
\* (process_pxd is entered, line 215); it carries the heap, the memo table and
\* the error count as the call leaves them, and what the call searched for.
find_module(M, S, cache, F, from_pyx, errs, module_name, relative_to_arg, pos, need_pxd, absolute_fallback) ==
    LET wildcard == relative_to_arg # NoScope /\ module_name = <<>>
        qualified_name0 ==
            IF relative_to_arg # NoScope
            THEN IF module_name # <<>>
                 THEN qualify_name(S, relative_to_arg, module_name)
                 ELSE S[relative_to_arg].qualified_name
            ELSE module_name
        scope0 == IF wildcard THEN relative_to_arg ELSE NoScope
        relative_to == IF wildcard THEN NoScope ELSE relative_to_arg
        H0 == [modules |-> M, scopes |-> S]
    IN IF ~module_name_pattern_match(qualified_name0)
       THEN [status |-> "CompileError", heap |-> H0, cache |-> cache,
             num_errors |-> errs, scope |-> NoScope,
             qualified_name0 |-> qualified_name0,
             qualified_name |-> qualified_name0,
             rel_search |-> FALSE, rel_found |-> FALSE, rel_path |-> NoPath,
             search2 |-> FALSE, found2 |-> FALSE, sys_path2 |-> FALSE,
             missing |-> FALSE, reported |-> FALSE, probes |-> 0]
       ELSE find_module_167(H0,
                IF relative_to # NoScope
                THEN ModuleScope_lookup_submodule(S, relative_to, module_name)
                ELSE scope0,
                cache, F, from_pyx, errs, module_name, relative_to,
                qualified_name0, pos, need_pxd, absolute_fallback)

\* ------------------------------------------------------------------ history
\* What has happened to a qualified name so far: the find_pxd_file calls made
\* for it, those that found a file, the required searches that missed, the
\* process_pxd calls, and the scopes find_module returned for it (ret0: by the
\* name the call computed and validated, ret: by the name the call resolved).
NoHist == [searches |-> 0, found |-> 0, missreq |-> 0, parses |-> 0,
           ret0 |-> {}, ret |-> {}, nret |-> 0]
HistGet(h, q) == IF q \in DOMAIN h THEN h[q] ELSE NoHist
HistPut(h, q, r) == (q :> r) @@ h

HistSearch(h, q, did, hit) ==
    IF ~did THEN h
    ELSE LET r == HistGet(h, q)
         IN HistPut(h, q, [r EXCEPT !.searches = @ + 1,
                                    !.found = IF hit THEN @ + 1 ELSE @])
HistMiss(h, q, did) ==
    IF ~did THEN h
    ELSE HistPut(h, q, [HistGet(h, q) EXCEPT !.missreq = @ + 1])
HistParse(h, q, did) ==
    IF ~did THEN h
    ELSE HistPut(h, q, [HistGet(h, q) EXCEPT !.parses = @ + 1])
HistReturn(h, q0, q, scope) ==
    LET h1 == HistPut(h, q0, [HistGet(h, q0) EXCEPT !.ret0 = @ \cup {scope}])
    IN HistPut(h1, q, [HistGet(h1, q) EXCEPT !.ret = @ \cup {scope},
                                             !.nret = @ + 1])

\* The last find_module call that left: whether the name it validated is in
\* the grammar, how it left, the scope it returned, whether it probed the
\* filesystem, whether a required declaration file was missing and reported,
\* and how its parse ended; call holds the arguments of the call (the base
\* is relative_to as line 167 sees it), what its relative lookup searched for
\* and found, and the qualified name it resolved.
NoCall == [base |-> NoScope, module_name |-> <<>>, need_pxd |-> FALSE,
           absolute_fallback |-> FALSE, rel_search |-> FALSE,
           rel_found |-> FALSE, rel_path |-> NoPath, qualified_name |-> <<>>]
NoLast == [op |-> "none", in_grammar |-> FALSE, outcome |-> "none",
           scope |-> NoScope, probed |-> FALSE, missing |-> FALSE,
           reported |-> FALSE, parse |-> "none", call |-> NoCall]

\* ------------------------------------------------------------------ inputs
\* the implementation file being compiled and the name of its module
MainSource == <<D("proj"), <<"a", ".pyx">>>>
MainModule == <<"a">>

PosInputs == { FilePos(MainSource) }

\* a file: modification time, permission bits, content (a sequence of lines)
File(m) == [mtime |-> m, mode |-> "rw", content |-> <<<<"text">>>>]
FsOf(paths) == [p \in paths |-> File(1)]

\* The environments a Context is run in: a filesystem view, the
\* cimport_from_pyx option, and the module names its callers ask for.
Environments ==
    { [fs |-> FsOf({}),
       cimport_from_pyx |-> FALSE,
       requests |-> { <<>>, <<"a">>, <<"b">> }],
      [fs |-> FsOf({ <<D("inc"), <<"a", ".pxd">>>>,
                     <<D("site"), <<"b", ".pxd">>>> }),
       cimport_from_pyx |-> FALSE,
       requests |-> { <<"a">>, <<"b">>, <<"a", "-", "b">> }],
      [fs |-> FsOf({ <<D("proj"), <<"a", ".", "b", ".pxd">>>>,
                     <<D("inc"), <<"a">>, <<"__init__", ".py">>>> }),
       cimport_from_pyx |-> FALSE,
       requests |-> { <<"a">>, <<"b">>, <<"a", ".", "b">> }],
      [fs |-> FsOf({ <<D("inc"), <<"b", ".pyx">>>> }),
       cimport_from_pyx |-> TRUE,
       requests |-> { <<"b">> }],
      [fs |-> FsOf({ <<D("inc"), <<"a", ".pxd">>>> }),
       cimport_from_pyx |-> FALSE,
       requests |-> { <<>>, <<"a">>, <<"1", "a">>, <<"a", "-", "b">>,
                      <<"a", "\n">> }],
      \* the declaration file of a.b lies in a sys.path directory only, next
      \* to the one of a top-level module b
      [fs |-> FsOf({ <<D("site"), <<"a", ".", "b", ".pxd">>>>,
                     <<D("site"), <<"b", ".pxd">>>> }),
       cimport_from_pyx |-> FALSE,
       requests |-> { <<"a">>, <<"b">> }] }

\* nothing compiled yet
NoOptions == [timestamps |-> FALSE, cplus |-> FALSE, output_file |-> NoPath,
              use_listing_file |-> FALSE, annotate |-> "None"]
NoBatch == [status |-> "idle", given |-> <<>>, sources |-> <<>>, i |-> 0,
            processed |-> {}, results |-> <<>>, num_errors |-> 0,
            context |-> 0, contexts |-> 0, cause |-> "none",
            annotate |-> "None"]
NoRun == [exit |-> "none", source |-> NoPath, c_path |-> NoPath,
          c_file |-> NoPath, num_errors |-> 0, err |-> FALSE,
          castrations |-> 0, castrate |-> "none", wrote |-> FALSE,
          listing |-> "none", c_stat |-> [mtime |-> 0, mode |-> "none"]]
NoAudit == [runs |-> <<>>, adds |-> <<>>, decided |-> <<>>, handed |-> <<>>]

\* ------------------------------------------------------------------ actions
\* Context.__init__: the built-in scope and the cython scope are registered
InitScopes ==
    << [name |-> <<"__builtin__">>, parent |-> NoScope,
        qualified_name |-> <<"__builtin__">>, pxd_file_loaded |-> TRUE,
        module_entries |-> <<>>],
       [name |-> <<"cython">>, parent |-> NoScope,
        qualified_name |-> <<"cython">>, pxd_file_loaded |-> TRUE,
        module_entries |-> <<>>] >>
InitModules == (<<"__builtin__">> :> 1) @@ (<<"cython">> :> 2)

Init ==
    /\ language_level = NoLevel
    /\ future_directives = {}
    /\ modules = InitModules
    /\ scopes = InitScopes
    /\ pxds = <<>>
    /\ num_errors = 0
    /\ stack = <<>>
    /\ \E env \in Environments :
          /\ fs = env.fs
          /\ cimport_from_pyx = env.cimport_from_pyx
          /\ requests = env.requests
    /\ search_cache = <<>>
    /\ calls = 0
    /\ hist = <<>>
    /\ last = NoLast
    /\ options = NoOptions
    /\ batch = NoBatch
    /\ rp = NoRun
    /\ audit = NoAudit

\* a find_module call, made by a pipeline stage or (when the stack is not
\* empty) by the declaration pipeline that process_pxd is running
FindModule(module_name, relative_to, pos, need_pxd, absolute_fallback) ==
    /\ UNCHANGED langvars
    /\ calls < MaxCalls
    /\ \E r \in { find_module(modules, scopes, search_cache, fs,
                              cimport_from_pyx, num_errors, module_name,
                              relative_to, pos, need_pxd, absolute_fallback) } :
       \E h \in { HistParse(
                    HistMiss(
                      HistSearch(
                        HistSearch(hist, r.qualified_name0, r.rel_search,
                                   r.rel_found),
                        r.qualified_name, r.search2, r.found2),
                      r.qualified_name, r.missing),
                    r.qualified_name, r.status = "parsing") } :
          /\ r.status = "parsing" => Len(stack) < MaxDepth
          /\ calls' = calls + 1
          /\ modules' = r.heap.modules
          /\ scopes' = r.heap.scopes
          /\ search_cache' = r.cache
          /\ num_errors' = r.num_errors
          /\ stack' = IF r.status = "parsing"
                      THEN Append(stack,
                                  [scope |-> r.scope,
                                   module_name |-> module_name,
                                   qualified_name0 |-> r.qualified_name0,
                                   qualified_name |-> r.qualified_name])
                      ELSE stack
          /\ hist' = IF r.status = "returned"
                     THEN HistReturn(h, r.qualified_name0, r.qualified_name,
                                     r.scope)
                     ELSE h
          /\ last' = [op |-> "find_module",
                      in_grammar |-> MatchesGrammar(r.qualified_name0),
                      outcome |-> r.status, scope |-> r.scope,
                      probed |-> r.probes > 0, missing |-> r.missing,
                      reported |-> r.reported, parse |-> "none",
                      call |-> [base |-> IF module_name = <<>> THEN NoScope
                                         ELSE relative_to,
                                module_name |-> module_name,
                                need_pxd |-> need_pxd,
                                absolute_fallback |-> absolute_fallback,
                                rel_search |-> r.rel_search,
                                rel_found |-> r.rel_found,
                                rel_path |-> r.rel_path,
                                qualified_name |-> r.qualified_name]]
          /\ UNCHANGED <<pxds, fs, cimport_from_pyx, requests>>
          /\ UNCHANGED batchvars

\* process_pxd returns a parsed declaration file: lines 216-219 and 222
ProcessPxdOk ==
    /\ UNCHANGED langvars
    /\ stack # <<>>
    /\ LET top == stack[Len(stack)]
       IN /\ pxds' = (top.module_name :> top.scope) @@ pxds
          /\ hist' = HistReturn(hist, top.qualified_name0, top.qualified_name,
                                top.scope)
          /\ last' = [op |-> "find_module",
                      in_grammar |-> MatchesGrammar(top.qualified_name0),
                      outcome |-> "returned",
                      scope |-> return_scope(top.scope, FALSE),
                      probed |-> FALSE, missing |-> FALSE,
                      reported |-> FALSE, parse |-> "ok", call |-> NoCall]
    /\ stack' = SubSeq(stack, 1, Len(stack) - 1)
    /\ UNCHANGED <<modules, scopes, num_errors, fs, search_cache,
                   cimport_from_pyx, requests, calls>>
    /\ UNCHANGED batchvars

\* process_pxd fails with a CompileError (returned as err and raised, or
\* raised by the parse): lines 216-217 and 220-222
ProcessPxdCompileError ==
    /\ UNCHANGED langvars
    /\ stack # <<>>
    /\ LET top == stack[Len(stack)]
       IN /\ hist' = HistReturn(hist, top.qualified_name0, top.qualified_name,
                                top.scope)
          /\ last' = [op |-> "find_module",
                      in_grammar |-> MatchesGrammar(top.qualified_name0),
                      outcome |-> "returned",
                      scope |-> return_scope(top.scope, FALSE),
                      probed |-> FALSE, missing |-> FALSE,
                      reported |-> FALSE, parse |-> "CompileError", call |-> NoCall]
    /\ scopes' = except_CompileError(scopes, stack[Len(stack)].scope)
    /\ num_errors' = error(num_errors)
    /\ stack' = SubSeq(stack, 1, Len(stack) - 1)
    /\ UNCHANGED <<modules, pxds, fs, search_cache,
                   cimport_from_pyx, requests, calls>>
    /\ UNCHANGED batchvars

\* process_pxd raises something that is no CompileError (an I/O error on the
\* declaration file): no handler on the way, every suspended call is left
ProcessPxdEnvironmentError ==
    /\ UNCHANGED langvars
    /\ stack # <<>>
    /\ LET top == stack[Len(stack)]
       IN last' = [op |-> "find_module",
                   in_grammar |-> MatchesGrammar(top.qualified_name0),
                   outcome |-> "EnvironmentError", scope |-> NoScope,
                   probed |-> FALSE, missing |-> FALSE,
                   reported |-> FALSE, parse |-> "EnvironmentError",
                   call |-> NoCall]
    /\ stack' = <<>>
    /\ UNCHANGED <<modules, scopes, pxds, num_errors, fs, search_cache,
                   cimport_from_pyx, requests, calls, hist>>
    /\ UNCHANGED batchvars

\* The scope a relative request is made from: the module whose declaration
\* file is being parsed, else the module being compiled (once registered).
Importer ==
    IF stack # <<>> THEN stack[Len(stack)].scope
    ELSE Context_lookup_submodule([modules |-> modules, scopes |-> scopes],
                                  MainModule)

Next ==
    \/ \E module_name \in requests,
          relative_to \in {NoScope, Importer},
          pos \in PosInputs,
          need_pxd \in BOOLEAN,
          absolute_fallback \in BOOLEAN :
            FindModule(module_name, relative_to, pos, need_pxd, absolute_fallback)
    \/ ProcessPxdOk
    \/ ProcessPxdCompileError
    \/ ProcessPxdEnvironmentError

Spec == Init /\ [][Next]_vars

\* ========================================================== the batch side
\* ------------------------------------------------------------ paths, times
\* os.getcwd(); an absolute path starts with the root component
cwd == <<D("/"), D("proj")>>
isabs(path) == Len(path) > 0 /\ path[1] = D("/")

\* os.path.join of two paths: an absolute second path discards the first
os_path_join(a, b) == IF isabs(b) THEN b ELSE a \o b

\* os.path.normpath of an absolute path: "." is dropped, ".." drops the
\* component before it (the root is its own parent)
RECURSIVE normpath(_, _)
normpath(done, rest) ==
    IF rest = <<>> THEN done
    ELSE LET c == Head(rest)
         IN IF c = D(".") THEN normpath(done, Tail(rest))
            ELSE IF c = D("..")
                 THEN normpath(IF Len(done) > 1
                               THEN SubSeq(done, 1, Len(done) - 1)
                               ELSE done, Tail(rest))
            ELSE normpath(Append(done, c), Tail(rest))

\* os.path.abspath
abspath(path) == normpath(<<>>, os_path_join(cwd, path))

\* os.path.isdir: a directory is what some file lies under
isdir(F, path) ==
    \E p \in DOMAIN F : Len(p) > Len(path) /\ SubSeq(p, 1, Len(path)) = path

\* os.path.splitext of a file name, and Utils.replace_suffix
Suffixes == {".pyx", ".py", ".pxd", ".c", ".cpp", ".dep", ".h"}
splitext(name) ==
    IF Len(name) > 1 /\ name[Len(name)] \in Suffixes
    THEN <<SubSeq(name, 1, Len(name) - 1), name[Len(name)]>>
    ELSE <<name, "">>
replace_suffix(path, newsuf) ==
    join(dirname(path), Cat(splitext(basename(path))[1], newsuf))

\* Utils.modification_time and Utils.file_newer_than
modification_time(F, path) == F[path].mtime
file_newer_than(F, path, time) == modification_time(F, path) > time

\* ------------------------------------------------------------ the manifest
\* str.strip() and str.split(" ", 1) on a line of tokens
IsWhite(t) == t \in {" ", "\n"}
RECURSIVE lstrip(_)
lstrip(line) ==
    IF line # <<>> /\ IsWhite(Head(line)) THEN lstrip(Tail(line)) ELSE line
RECURSIVE rstrip(_)
rstrip(line) ==
    IF line # <<>> /\ IsWhite(line[Len(line)])
    THEN rstrip(SubSeq(line, 1, Len(line) - 1)) ELSE line
\* line.strip() left out
strip_mutant_none(line) == line

\* line.strip()
strip(line) == lstrip(rstrip(line))
has_space(line) == \E i \in 1..Len(line) : line[i] = " "
split_space_1(line) ==
    LET i == CHOOSE k \in 1..Len(line) :
                 line[k] = " " /\ \A j \in 1..(k - 1) : line[j] # " "
    IN <<SubSeq(line, 1, i - 1), SubSeq(line, i + 1, Len(line))>>
has_space_stripped(line) == has_space(strip(line))

\* Context.read_dependency_file: the (kind, name) chunks of the .dep file
read_dependency_file(F, source_path) ==
    LET dep_path == replace_suffix(source_path, ".dep")
    IN IF exists(F, dep_path)
       THEN LET lines == SelectSeq(F[dep_path].content, has_space_stripped)
            IN [i \in 1..Len(lines) |-> split_space_1(strip(lines[i]))]
       ELSE <<>>

\* ------------------------------------------------------------ staleness
\* line 276: the adjacent declaration file exists and is newer
pxd_newer_mutant_never(F, pxd_path, c_time) == FALSE

pxd_newer(F, pxd_path, c_time) ==
    exists(F, pxd_path) /\ file_newer_than(F, pxd_path, c_time)

\* lines 278-288: the loop over the manifest entries.  pos is a list holding
\* the source path, so pos[0] is a str and no FileSourceDescriptor; the
\* include branch calls search_include_directories without its suffix.
RECURSIVE check_dependencies(_, _, _, _, _, _, _)
\* lines 286-287, dep being the result of find_pxd_file at line 281
check_dependency(dep, cache, F, from_pyx, deps, i, pos, c_time) ==
    IF dep.status # "ok"
    THEN [status |-> dep.status, value |-> 0, cache |-> cache]
    ELSE IF dep.path # NoPath /\ file_newer_than(F, dep.path, c_time)
    THEN [status |-> "ok", value |-> 1, cache |-> dep.cache]
    ELSE check_dependencies(dep.cache, F, from_pyx, deps, i + 1, pos, c_time)

check_dependencies(cache, F, from_pyx, deps, i, pos, c_time) ==
    IF i > Len(deps) THEN [status |-> "ok", value |-> 0, cache |-> cache]
    ELSE IF deps[i][1] = <<"cimport">>
    THEN check_dependency(
             find_pxd_file(cache, F, from_pyx, deps[i][2], pos, TRUE),
             cache, F, from_pyx, deps, i, pos, c_time)
    ELSE IF deps[i][1] = <<"include">>
    THEN [status |-> "TypeError", value |-> 0, cache |-> cache]
    ELSE check_dependencies(cache, F, from_pyx, deps, i + 1, pos, c_time)

\* the verdict of the staleness check; manifest tells whether
\* read_dependency_file (line 278) was reached
Verdict(r, manifest) ==
    [status |-> r.status, value |-> r.value, manifest |-> manifest,
     cache |-> r.cache]

\* Context.c_file_out_of_date
c_file_out_of_date(cache, F, from_pyx, source_path, output_path) ==
    IF ~exists(F, output_path)
    THEN Verdict([status |-> "ok", value |-> 1, cache |-> cache], FALSE)
    ELSE IF ~exists(F, source_path)
    THEN \* line 272: os.stat of a source that is not there raises
         Verdict([status |-> "OSError", value |-> 0, cache |-> cache], FALSE)
    ELSE IF file_newer_than(F, source_path,
                            modification_time(F, output_path))
    THEN Verdict([status |-> "ok", value |-> 1, cache |-> cache], FALSE)
    ELSE IF pxd_newer(F, replace_suffix(source_path, ".pxd"),
                      modification_time(F, output_path))
    THEN Verdict([status |-> "ok", value |-> 1, cache |-> cache], FALSE)
    ELSE Verdict(check_dependencies(cache, F, from_pyx,
                     read_dependency_file(F, source_path), 1,
                     StrPos(source_path),
                     modification_time(F, output_path)),
                 TRUE)

\* get_output_filename
get_output_filename(F, source_filename, wd, opts) ==
    LET c_suffix == IF opts.cplus THEN ".cpp" ELSE ".c"
        suggested_file_name == replace_suffix(source_filename, c_suffix)
    IN IF opts.output_file # NoPath
       THEN LET out_path == os_path_join(wd, opts.output_file)
            IN IF isdir(F, out_path)
               THEN join(out_path, basename(suggested_file_name))
               ELSE out_path
       ELSE suggested_file_name

\* ------------------------------------------------------------ run_pipeline
\* a file can be opened for writing: it is absent, or its mode allows it
writable(F, path) == IF exists(F, path) THEN F[path].mode = "rw" ELSE TRUE

\* the latest modification time on disk; a write happens after it
RECURSIVE max_mtime(_, _)
max_mtime(F, paths) ==
    IF paths = {} THEN 0
    ELSE LET p == CHOOSE q \in paths : TRUE
             m == max_mtime(F, paths \ {p})
         IN IF F[p].mtime > m THEN F[p].mtime ELSE m
now(F) == max_mtime(F, DOMAIN F) + 1

\* the code generator writes the main artifact
write_c_file(F, path) ==
    (path :> [mtime |-> now(F),
              mode |-> IF exists(F, path) THEN F[path].mode ELSE "rw",
              content |-> <<<<"code">>>>]) @@ F

\* Utils.castrate_file(path, st): the file is opened for writing and its
\* content discarded; the permission bits stay as they are and the times are
\* the ones of st, the stat record handed in as the metadata to keep
castrate_file(F, path, st) ==
    IF ~writable(F, path)
    THEN [status |-> "EnvironmentError", fs |-> F]
    ELSE IF exists(F, path)
    THEN [status |-> "ok", fs |-> [F EXCEPT ![path].content = <<>>,
                                            ![path].mtime = st.mtime]]
    ELSE [status |-> "ok",
          fs |-> (path :> [mtime |-> st.mtime, mode |-> "rw",
                           content |-> <<>>]) @@ F]

\* What Pipeline.run_pipeline(pipeline, source) can do: return err (an
\* error object or None) after the stages counted `errors` errors, or let an
\* environment error through; wrote tells whether the code generator got to
\* write the main artifact before that.
PipelineOutcomes ==
    { [exit |-> "returned", err |-> FALSE, errors |-> 0, wrote |-> TRUE],
      [exit |-> "returned", err |-> TRUE,  errors |-> 1, wrote |-> FALSE],
      [exit |-> "returned", err |-> TRUE,  errors |-> 1, wrote |-> TRUE],
      [exit |-> "returned", err |-> TRUE,  errors |-> 0, wrote |-> FALSE],
      [exit |-> "returned", err |-> FALSE, errors |-> 1, wrote |-> TRUE],
      [exit |-> "raised",   err |-> FALSE, errors |-> 0, wrote |-> FALSE],
      [exit |-> "raised",   err |-> FALSE, errors |-> 0, wrote |-> TRUE] }

\* the outcomes the filesystem allows: a source that is not there cannot be
\* read, an artifact that is not writable cannot be written
possible(F, source, c_file, o) ==
    /\ ~exists(F, source) => o.exit = "raised" /\ ~o.wrote
    /\ o.wrote => writable(F, c_file)

\* create_default_resultobj: result.c_file is the computed output path
create_default_resultobj(F, abs_path, wd, opts) ==
    [main_source_file |-> abs_path,
     c_file |-> get_output_filename(F, abs_path, wd, opts),
     num_errors |-> 0]

\* Context.teardown_errors, clearing the reference only after a castration
\* that worked
teardown_errors_mutant_clear_in_try(F, n, err, result) ==
    LET failed == err \/ n > 0
        stat_ok == exists(F, result.main_source_file)
        c == IF stat_ok
             THEN castrate_file(F, result.c_file, F[result.main_source_file])
             ELSE [status |-> "EnvironmentError", fs |-> F]
    IN IF failed /\ result.c_file # NoPath
       THEN [result |-> [result EXCEPT !.num_errors = n,
                                       !.c_file = IF c.status = "ok"
                                                  THEN NoPath ELSE @],
             fs |-> c.fs, castrations |-> IF stat_ok THEN 1 ELSE 0,
             castrate |-> c.status]
       ELSE [result |-> [result EXCEPT !.num_errors = n],
             fs |-> F, castrations |-> 0, castrate |-> "none"]

\* Context.teardown_errors(err, options, result); n is Errors.num_errors.
\* os.stat of the source and castrate_file are both inside the try, and an
\* EnvironmentError of either is passed over.
teardown_errors(F, n, err, result) ==
    LET failed == err \/ n > 0
        stat_ok == exists(F, result.main_source_file)
        c == IF stat_ok
             THEN castrate_file(F, result.c_file, F[result.main_source_file])
             ELSE [status |-> "EnvironmentError", fs |-> F]
    IN IF failed /\ result.c_file # NoPath
       THEN [result |-> [result EXCEPT !.num_errors = n, !.c_file = NoPath],
             fs |-> c.fs, castrations |-> IF stat_ok THEN 1 ELSE 0,
             castrate |-> c.status]
       ELSE [result |-> [result EXCEPT !.num_errors = n],
             fs |-> F, castrations |-> 0, castrate |-> "none"]

\* Context.setup_errors (387-394): Errors.open_listing_file opens the
\* listing file when options.use_listing_file gives it a path
setup_errors(opts) == IF opts.use_listing_file THEN "open" ELSE "none"

\* lines 481-483: the stage execution did o on the disk F1; t is what
\* teardown_errors would do after it, listing the sink as setup_errors left
\* it and annotate the value of options.annotate after line 472.
\* teardown_errors closes the listing file at line 400.  c_stat is the stat
\* of the main artifact as the stages left it (mode "none": no such file).
run_pipeline_481(F1, result, t, listing, annotate, o) ==
    IF o.exit = "raised"
    THEN [exit |-> "raised", fs |-> F1, result |-> result,
          c_path |-> result.c_file, err |-> FALSE, num_errors |-> o.errors,
          castrations |-> 0, castrate |-> "none", wrote |-> o.wrote,
          listing |-> listing, annotate |-> annotate,
          c_stat |-> IF exists(F1, result.c_file)
                     THEN [mtime |-> F1[result.c_file].mtime,
                           mode |-> F1[result.c_file].mode]
                     ELSE [mtime |-> 0, mode |-> "none"]]
    ELSE [exit |-> "returned", fs |-> t.fs, result |-> t.result,
          c_path |-> result.c_file, err |-> o.err, num_errors |-> o.errors,
          castrations |-> t.castrations, castrate |-> t.castrate,
          wrote |-> o.wrote,
          listing |-> IF listing = "open" THEN "closed" ELSE listing,
          annotate |-> annotate,
          c_stat |-> IF exists(F1, result.c_file)
                     THEN [mtime |-> F1[result.c_file].mtime,
                           mode |-> F1[result.c_file].mode]
                     ELSE [mtime |-> 0, mode |-> "none"]]

\* lines 480-481: setup_errors resets the error count, the stages run
run_pipeline_480(F1, result, opts, o) ==
    run_pipeline_481(F1, result,
                     teardown_errors(F1, o.errors, o.err, result),
                     setup_errors(opts), opts.annotate, o)

\* lines 465-479: the result object is there; with options.annotate None a
\* companion HTML file that starts with the generator's marker sets
\* options.annotate to True (466-472)
run_pipeline_465(F, result, opts, o) ==
    run_pipeline_480(IF o.wrote THEN write_c_file(F, result.c_file) ELSE F,
                     result,
                     [opts EXCEPT !.annotate =
                        IF @ = "None"
                           /\ exists(F, replace_suffix(result.c_file, ".html"))
                           /\ F[replace_suffix(result.c_file, ".html")].content
                                = << <<"<!-- Generated by Cython">> >>
                        THEN "True" ELSE @],
                     o)

\* run_pipeline(source, options, context=context) with the pipeline doing o.
\* A raise of the stage execution leaves run_pipeline at line 481, before
\* teardown_errors.
run_pipeline(F, source, opts, o) ==
    run_pipeline_465(F, create_default_resultobj(F, abspath(source), cwd, opts),
                     opts, o)

\* the observation of a run_pipeline execution
Observe(r, source) ==
    [exit |-> r.exit, source |-> r.result.main_source_file,
     c_path |-> r.c_path, c_file |-> r.result.c_file,
     num_errors |-> r.result.num_errors, err |-> r.err,
     castrations |-> r.castrations, castrate |-> r.castrate,
     wrote |-> r.wrote, listing |-> r.listing, c_stat |-> r.c_stat]

\* ------------------------------------------------------------ batch inputs
InProj(name, suffix) == Append(cwd, <<name, suffix>>)
Rel(name) == << <<name, ".pyx">> >>
Dotted(name) == << D("."), <<name, ".pyx">> >>
Updir(name) == << D(".."), D("proj"), <<name, ".pyx">> >>
Abs(name) == InProj(name, ".pyx")

FileAt(m, mode, content) == [mtime |-> m, mode |-> mode, content |-> content]
Text == << <<"text">> >>

OptionSets(ts, cplus, outs) ==
    { [timestamps |-> t, cplus |-> c, output_file |-> o,
       use_listing_file |-> FALSE, annotate |-> "None"] :
        t \in ts, c \in cplus, o \in outs }

\* The environments a batch is run in: a filesystem view, the source lists
\* the caller passes, and the options it may set.
BatchEnvironments ==
    { \* nothing generated yet; repeated sources in several spellings
      [fs |-> (Abs("m") :> FileAt(2, "rw", Text))
              @@ (Abs("n") :> FileAt(2, "rw", Text)),
       sources |-> { <<Rel("m"), Abs("m")>>,
                     <<Rel("m"), Rel("n"), Dotted("m")>>,
                     <<Rel("n"), Rel("x")>> },
       options |-> OptionSets(BOOLEAN, {FALSE}, {NoPath})],
      \* fresh output, newer adjacent declaration file, manifest present
      [fs |-> (Abs("m") :> FileAt(1, "rw", Text))
              @@ (InProj("m", ".c") :> FileAt(2, "rw", Text))
              @@ (InProj("m", ".pxd") :> FileAt(3, "rw", Text))
              @@ (InProj("m", ".dep") :>
                    FileAt(1, "rw", << <<"cimport", " ", "other", "\n">> >>)),
       sources |-> { <<Rel("m")>> },
       options |-> OptionSets(BOOLEAN, {FALSE}, {NoPath})],
      \* fresh output, manifest without cimport or include entries
      [fs |-> (Abs("m") :> FileAt(1, "rw", Text))
              @@ (InProj("m", ".c") :> FileAt(2, "rw", Text))
              @@ (InProj("m", ".pxd") :> FileAt(1, "rw", Text))
              @@ (InProj("m", ".dep") :>
                    FileAt(1, "rw", << <<"badline", "\n">>,
                                       <<"other", " ", "thing", "\n">> >>)),
       sources |-> { <<Rel("m"), Updir("m")>> },
       options |-> OptionSets(BOOLEAN, {FALSE}, {NoPath})],
      \* fresh output, manifest "cimport other\nbadline\ninclude foo.h"
      [fs |-> (Abs("m") :> FileAt(1, "rw", Text))
              @@ (InProj("m", ".c") :> FileAt(2, "rw", Text))
              @@ (InProj("m", ".dep") :>
                    FileAt(1, "rw", << <<"cimport", " ", "other", "\n">>,
                                       <<"badline", "\n">>,
                                       <<"include", " ", "foo", ".h">> >>)),
       sources |-> { <<Abs("m")>> },
       options |-> OptionSets(BOOLEAN, {FALSE}, {NoPath})],
      \* fresh output with an include entry; a stale read-only output
      [fs |-> (Abs("m") :> FileAt(1, "rw", Text))
              @@ (InProj("m", ".c") :> FileAt(2, "rw", Text))
              @@ (InProj("m", ".dep") :>
                    FileAt(1, "rw", << <<" ", "include", " ", "foo", ".h",
                                         "\n">> >>))
              @@ (Abs("n") :> FileAt(3, "rw", Text))
              @@ (InProj("n", ".c") :> FileAt(2, "r", Text)),
       sources |-> { <<Rel("m")>>, <<Rel("n")>>, <<Rel("n"), Rel("m")>> },
       options |-> OptionSets(BOOLEAN, {FALSE}, {NoPath})],
      \* C++ output as old as its source, next to a stale C output
      [fs |-> (Abs("m") :> FileAt(2, "rw", Text))
              @@ (InProj("m", ".cpp") :> FileAt(2, "rw", Text))
              @@ (InProj("m", ".c") :> FileAt(1, "rw", Text)),
       sources |-> { <<Rel("m")>> },
       options |-> OptionSets(BOOLEAN, BOOLEAN, {NoPath})],
      \* an output file or an output directory is named
      [fs |-> (Abs("m") :> FileAt(1, "rw", Text))
              @@ (Append(Append(cwd, D("out")), <<"old", ".c">>) :>
                    FileAt(1, "rw", Text)),
       sources |-> { <<Rel("m")>> },
       options |-> OptionSets({TRUE}, {FALSE},
                              { <<D("out")>>, << <<"x", ".c">> >> })],
      \* annotate left unset, a listing file asked for or not; the first
      \* source has a companion HTML file, written by the annotator or not
      [fs |-> (Abs("m") :> FileAt(1, "rw", Text))
              @@ (Abs("n") :> FileAt(1, "rw", Text))
              @@ (InProj("m", ".html") :>
                    FileAt(1, "rw", << <<"<!-- Generated by Cython">> >>)),
       sources |-> { <<Rel("m"), Rel("n")>> },
       options |-> { [NoOptions EXCEPT !.use_listing_file = u] : u \in BOOLEAN }],
      [fs |-> (Abs("m") :> FileAt(1, "rw", Text))
              @@ (Abs("n") :> FileAt(1, "rw", Text))
              @@ (InProj("m", ".html") :> FileAt(1, "rw", Text)),
       sources |-> { <<Rel("m"), Rel("n")>> },
       options |-> { NoOptions }] }

\* ------------------------------------------------------------ batch actions
Count(f, p) == IF p \in DOMAIN f THEN f[p] ELSE 0
Bump(f, p) == (p :> Count(f, p) + 1) @@ f

\* line 588 left out
processed_add_mutant_forget(processed, source) == processed

\* line 588: processed.add(source)
processed_add(processed, source) == processed \cup {source}

\* CompilationResultSet.add
CompilationResultSet_add(b, source, result) ==
    [b EXCEPT !.results = (source :> result) @@ @,
              !.num_errors = @ + result.num_errors]

InitBatch ==
    /\ language_level = NoLevel
    /\ future_directives = {}
    /\ modules = InitModules
    /\ scopes = InitScopes
    /\ pxds = <<>>
    /\ num_errors = 0
    /\ stack = <<>>
    /\ cimport_from_pyx = FALSE
    /\ \E env \in BatchEnvironments :
          /\ fs = env.fs
          /\ requests = env.sources
          /\ options \in env.options
    /\ search_cache = <<>>
    /\ calls = 0
    /\ hist = <<>>
    /\ last = NoLast
    /\ batch = NoBatch
    /\ rp = NoRun
    /\ audit = NoAudit

\* compile_single(source, options): one run_pipeline, no staleness check
CompileSingle(source) ==
    /\ UNCHANGED langvars
    /\ batch.status # "running"
    /\ calls < MaxCalls
    /\ \E o \in PipelineOutcomes :
       \E r \in { run_pipeline(fs, source, options, o) } :
          /\ possible(fs, abspath(source), r.c_path, o)
          /\ fs' = r.fs
          /\ num_errors' = r.num_errors
          /\ rp' = Observe(r, source)
    /\ calls' = calls + 1
    /\ UNCHANGED <<modules, scopes, pxds, stack, search_cache,
                   cimport_from_pyx, requests, hist>>
    /\ UNCHANGED <<options, batch, audit>>

\* compile_multiple(sources, options), lines 566-572: up to the loop
CompileMultipleStart(sources) ==
    /\ UNCHANGED langvars
    /\ batch.status # "running"
    /\ calls < MaxCalls
    /\ calls' = calls + 1
    /\ batch' = [status |-> "running", given |-> sources,
                 sources |-> [i \in 1..Len(sources) |-> abspath(sources[i])],
                 i |-> 1, processed |-> {}, results |-> <<>>,
                 num_errors |-> 0, context |-> 0, contexts |-> 0,
                 cause |-> "none", annotate |-> options.annotate]
    /\ audit' = NoAudit
    /\ UNCHANGED <<modules, scopes, pxds, num_errors, stack, fs, search_cache,
                   cimport_from_pyx, requests, hist, options, rp>>

\* what the staleness check is asked about, read off the disk directly
Facts(F, source, output) ==
    LET pxd == replace_suffix(source, ".pxd")
    IN [out_missing |-> output \notin DOMAIN F,
        src_newer |-> /\ output \in DOMAIN F
                      /\ source \in DOMAIN F
                      /\ F[source].mtime > F[output].mtime,
        pxd_newer |-> /\ output \in DOMAIN F
                      /\ pxd \in DOMAIN F
                      /\ F[pxd].mtime > F[output].mtime,
        has_manifest |-> replace_suffix(source, ".dep") \in DOMAIN F]

\* line 587 left out: the Context stays bound after the run
context_after_run_mutant_keep(context) == context

\* line 587: context = None, written 0; the n-th Context made at line 576
\* is written n
context_after_run(context) == 0

\* one pass of the loop of compile_multiple, lines 573-588
CompileMultipleIterate ==
    /\ UNCHANGED langvars
    /\ batch.status = "running"
    /\ batch.i <= Len(batch.sources)
    /\ LET source == batch.sources[batch.i]
           output_filename == get_output_filename(fs, source, cwd, options)
           opts == [options EXCEPT !.annotate = batch.annotate]
           withctx == [batch EXCEPT !.context = IF batch.context = 0
                                                THEN batch.contexts + 1 ELSE @,
                                    !.contexts = IF batch.context = 0
                                                 THEN @ + 1 ELSE @]
       IN \/ \* line 574: already processed
             /\ source \in batch.processed
             /\ batch' = [batch EXCEPT !.i = @ + 1]
             /\ UNCHANGED <<fs, num_errors, search_cache, rp, audit>>
          \/ /\ source \notin batch.processed
             /\ \E d \in { c_file_out_of_date(search_cache, fs,
                               cimport_from_pyx, source, output_filename) } :
                \E verdict \in { [status |-> d.status, value |-> d.value,
                                  manifest |-> d.manifest,
                                  timestamps |-> options.timestamps,
                                  facts |-> Facts(fs, source,
                                                  output_filename)] } :
                \/ \* line 578 raises: compile_multiple is left
                   /\ d.status # "ok"
                   /\ batch' = [withctx EXCEPT !.status = "raised",
                                               !.cause = "c_file_out_of_date"]
                   /\ audit' = [audit EXCEPT
                                  !.decided = (source :> verdict) @@ @]
                   /\ UNCHANGED <<fs, num_errors, search_cache, rp>>
                \/ \* line 579 false: the source is skipped
                   /\ d.status = "ok"
                   /\ ~((~options.timestamps) \/ d.value = 1)
                   /\ batch' = [withctx EXCEPT
                                  !.processed = processed_add(@, source),
                                  !.i = @ + 1]
                   /\ audit' = [audit EXCEPT
                                  !.decided = (source :> verdict) @@ @]
                   /\ search_cache' = d.cache
                   /\ UNCHANGED <<fs, num_errors, rp>>
                \/ \* lines 579-588: the source is compiled
                   /\ d.status = "ok"
                   /\ ((~options.timestamps) \/ d.value = 1) = TRUE
                   /\ \E o \in PipelineOutcomes :
                      \E r \in { run_pipeline(fs, source, opts, o) } :
                         /\ possible(fs, source, r.c_path, o)
                         /\ fs' = r.fs
                         /\ num_errors' = r.num_errors
                         /\ rp' = Observe(r, source)
                         /\ audit' = [audit EXCEPT
                                        !.decided = (source :> verdict) @@ @,
                                        !.runs = Bump(@, r.result.main_source_file),
                                        !.handed = Append(@, [context |-> withctx.context, source |-> source, annotate |-> r.annotate]),
                                        !.adds = IF r.exit = "returned"
                                                 THEN Bump(@, source) ELSE @]
                         /\ batch' =
                              IF r.exit = "raised"
                              THEN [withctx EXCEPT !.status = "raised",
                                                   !.cause = "run_pipeline",
                                                   !.annotate = r.annotate]
                              ELSE [CompilationResultSet_add(withctx, source,
                                                             r.result)
                                      EXCEPT !.context = context_after_run(@),
                                             !.annotate = r.annotate,
                                             !.processed =
                                                 processed_add(@, source),
                                             !.i = @ + 1]
                   /\ search_cache' = d.cache
    /\ UNCHANGED <<modules, scopes, pxds, stack, cimport_from_pyx, requests,
                   calls, hist, last, options>>

\* line 589: return results
CompileMultipleReturn ==
    /\ UNCHANGED langvars
    /\ batch.status = "running"
    /\ batch.i > Len(batch.sources)
    /\ batch' = [batch EXCEPT !.status = "returned"]
    /\ UNCHANGED <<modules, scopes, pxds, num_errors, stack, fs, search_cache,
                   cimport_from_pyx, requests, calls, hist, last, options,
                   rp, audit>>

NextBatch ==
    \/ \E sources \in requests : \E i \in 1..Len(sources) :
          CompileSingle(sources[i]) /\ UNCHANGED last
    \/ \E sources \in requests : CompileMultipleStart(sources) /\ UNCHANGED last
    \/ CompileMultipleIterate
    \/ CompileMultipleReturn

SpecBatch == InitBatch /\ [][NextBatch]_vars

\* ================================================================== claims
\* The claims about find_module are checked under Spec, those about
\* run_pipeline, compile_multiple and c_file_out_of_date under SpecBatch.

\* C1 (as stated): any two find_module calls whose qualified name (the name
\* the call computes and validates, lines 151-163) is the same return the
\* identical scope instance.
C1_SameQualifiedNameSameScope ==
    \A q \in DOMAIN hist : Cardinality(hist[q].ret0) <= 1

\* C1 (amended): any two find_module calls that resolve to the same qualified
\* name (the relative name when the relative lookup succeeds or
\* absolute_fallback is off, the plain module_name otherwise) return the
\* identical scope instance, that instance carries the resolved name unless
\* it was registered before under another name, and no two scope objects of
\* the Context ever have the same qualified name.
C1_ResolvedNameSameScope ==
    /\ \A q \in DOMAIN hist : Cardinality(hist[q].ret) <= 1
    /\ \A q \in DOMAIN hist : \A sc \in hist[q].ret :
          /\ sc \in 1..Len(scopes)
          /\ scopes[sc].qualified_name = q
    /\ \A i, j \in 1..Len(scopes) :
          scopes[i].qualified_name = scopes[j].qualified_name => i = j

\* C1 witness: two calls resolved to one name and got one scope, while
\* another module was resolved as well
C1_Witness ==
    \E q, q2 \in DOMAIN hist :
        /\ q # q2
        /\ hist[q].nret >= 2
        /\ Cardinality(hist[q].ret) = 1
        /\ hist[q2].nret >= 1

\* C2 (as stated): the declaration file of a module is searched for at most
\* once and parsed at most once.
C2_SearchedOnceParsedOnce ==
    \A q \in DOMAIN hist : hist[q].searches <= 1 /\ hist[q].parses <= 1

\* C2 (amended): the declaration file of a module is parsed at most once,
\* found by a search at most once, and found missing by a required search at
\* most once; searches that miss without being required may be repeated.
C2_ParsedFoundMissedOnce ==
    \A q \in DOMAIN hist :
        /\ hist[q].parses <= 1
        /\ hist[q].found <= 1
        /\ hist[q].missreq <= 1

\* C2 witness: a module whose declaration file was parsed, and for which a
\* later call returned as well
C2_Witness ==
    \E q \in DOMAIN hist :
        /\ hist[q].parses = 1
        /\ hist[q].nret >= 2
        /\ stack = <<>>

\* C3: a scope whose pxd_file_loaded flag is set keeps it set in every step.
C3_LoadedStaysLoaded ==
    [][\A i \in 1..Len(scopes) :
          scopes[i].pxd_file_loaded =>
              /\ i <= Len(scopes')
              /\ scopes'[i].pxd_file_loaded]_vars

\* C3 witness: a declaration-file parse failed with a CompileError and the
\* scope is still loaded after a further call
C3_Witness ==
    /\ last.parse = "CompileError"
    /\ last.scope # NoScope
    /\ scopes[last.scope].pxd_file_loaded
    /\ calls >= 2

\* C4 (as stated): a find_module call whose qualified name is not in the
\* grammar identifier(.identifier)* raises the structural CompileError,
\* probes no file, and leaves the Context and the memo table as they were.
C4_InvalidNameRejected ==
    [][(calls' = calls + 1 /\ ~last'.in_grammar) =>
          /\ last'.outcome = "CompileError"
          /\ ~last'.probed
          /\ UNCHANGED <<modules, scopes, pxds, search_cache, num_errors,
                         stack>>]_vars

C6_UnsetIffError ==
    rp.exit = "returned" =>
        LET failed == rp.num_errors > 0 \/ rp.err
        IN /\ (rp.c_file = NoPath) <=> failed
           /\ failed => rp.castrations = 1
           /\ ~failed => /\ rp.c_file = rp.c_path
                         /\ rp.c_path # NoPath
                         /\ rp.castrations = 0
                         /\ exists(fs, rp.c_path)
                         /\ fs[rp.c_path].content # <<>>

\* C6 witness: a run with an error returned although the invalidation of its
\* artifact hit an environment error; the reference is cleared
C6_Witness ==
    /\ rp.exit = "returned"
    /\ rp.err
    /\ rp.castrate = "EnvironmentError"
    /\ rp.castrations = 1
    /\ rp.c_file = NoPath

\* ---- C7: however a run_pipeline execution fails after the output path was
\* computed (counted errors, a failure returned by the pipeline, an environment
\* failure raised by the stage execution), a main artifact that exists at the
\* output path has no content left when control leaves run_pipeline.
C7_NoStaleArtifact ==
    (rp.exit # "none" /\ (rp.exit = "raised" \/ rp.err \/ rp.num_errors > 0)
        /\ exists(fs, rp.c_path))
    => fs[rp.c_path].content = <<>>

\* ---- C8: compile_multiple runs the pipeline at most once per absolute source
\* path, whatever the spellings and repetitions in its input, and adds at
\* most one result per absolute path; the keys of the result set are absolute.
C8_OncePerAbsolutePath ==
    /\ \A p \in DOMAIN audit.runs : audit.runs[p] <= 1
    /\ \A p \in DOMAIN audit.adds : audit.adds[p] <= 1
    /\ \A p \in DOMAIN batch.results :
          /\ isabs(p)
          /\ p = abspath(p)
          /\ Count(audit.adds, p) = 1

\* C8 witness: a batch returned whose input named one file in two spellings,
\* and that file was compiled once
C8_Witness ==
    /\ batch.status = "returned"
    /\ \E i, j \in 1..Len(batch.given) :
          /\ batch.given[i] # batch.given[j]
          /\ batch.sources[i] = batch.sources[j]
          /\ Count(audit.runs, batch.sources[i]) = 1
          /\ batch.sources[i] \in DOMAIN batch.results

\* ---- C9: in compile_multiple a distinct source is compiled exactly when
\* timestamp checking is disabled or its output is stale; with timestamp
\* checking disabled the batch is not stopped by the staleness check, whatever
\* the outputs and manifests are.
C9_CompiledIffUncheckedOrStale ==
    /\ \A p \in batch.processed :
          (p \in DOMAIN batch.results)
              <=> (~options.timestamps \/ audit.decided[p].value = 1)
    /\ (batch.status = "raised" /\ ~options.timestamps)
          => batch.cause # "c_file_out_of_date"

\* ---- C10: c_file_out_of_date returns true when the output does not exist,
\* when the source is newer than the output, and when an existing adjacent
\* .pxd file is newer than the output; the manifest is not read in these
\* cases.
C10_StaleWithoutManifest ==
    \A p \in DOMAIN audit.decided :
        LET d == audit.decided[p]
        IN (d.facts.out_missing \/ d.facts.src_newer \/ d.facts.pxd_newer)
           => /\ d.status = "ok"
              /\ d.value = 1
              /\ ~d.manifest

\* C10 witness: an output that exists and is not older than the source, an
\* adjacent .pxd that is newer, a manifest on disk; the verdict is true
C10_Witness ==
    \E p \in DOMAIN audit.decided :
        LET d == audit.decided[p]
        IN /\ ~d.facts.out_missing
           /\ ~d.facts.src_newer
           /\ d.facts.pxd_newer
           /\ d.facts.has_manifest
           /\ d.value = 1

\* ---- C11: when the output exists and neither the source nor the adjacent
\* .pxd is newer, c_file_out_of_date returns a boolean whatever the manifest
\* holds (true when a cimport or include entry names a newer file, false when
\* every dependency is older).
C11_ManifestVerdictIsBoolean ==
    \A p \in DOMAIN audit.decided :
        LET d == audit.decided[p]
        IN (~d.facts.out_missing /\ ~d.facts.src_newer /\ ~d.facts.pxd_newer)
           => /\ d.status = "ok"
              /\ d.value \in {0, 1}

\* ====================================================== the manifest reader
\* the lines a dependency manifest is made of
MaxLines == 2

ManifestLines ==
    { <<"cimport", " ", "other", "\n">>,
      <<"badline", "\n">>,
      <<"include", " ", "foo", ".h">>,
      <<" ", "badline", "\n">>,
      <<"cimport", " ", " ", "other", " ", "\n">>,
      <<"\n">>,
      <<" ", " ", "include", " ", "foo", ".h", "\n">> }

RECURSIVE SeqsUpTo(_, _)
SeqsUpTo(S, n) ==
    IF n = 0 THEN { <<>> }
    ELSE LET shorter == SeqsUpTo(S, n - 1)
         IN shorter \cup { Append(q, x) : q \in shorter, x \in S }

\* the source whose manifest is read, and its manifest
ManifestSource == Abs("m")
ManifestPath == InProj("m", ".dep")

InitManifest ==
    /\ language_level = NoLevel
    /\ future_directives = {}
    /\ modules = InitModules
    /\ scopes = InitScopes
    /\ pxds = <<>>
    /\ num_errors = 0
    /\ stack = <<>>
    /\ cimport_from_pyx = FALSE
    /\ \/ fs = (ManifestSource :> FileAt(1, "rw", Text))
       \/ \E content \in SeqsUpTo(ManifestLines, MaxLines) :
             fs = (ManifestSource :> FileAt(1, "rw", Text))
                  @@ (ManifestPath :> FileAt(1, "rw", content))
    /\ requests = {}
    /\ search_cache = <<>>
    /\ calls = 0
    /\ hist = <<>>
    /\ last = NoLast
    /\ options = NoOptions
    /\ batch = NoBatch
    /\ rp = NoRun
    /\ audit = NoAudit

\* Context.read_dependency_file(source_path) is called
ReadDependencyFile ==
    /\ UNCHANGED langvars
    /\ calls = 0
    /\ calls' = 1
    /\ last' = [op |-> "read_dependency_file",
                chunks |-> read_dependency_file(fs, ManifestSource)]
    /\ UNCHANGED <<modules, scopes, pxds, num_errors, stack, fs, search_cache,
                   cimport_from_pyx, requests, hist, options, batch, rp,
                   audit>>

NextManifest == ReadDependencyFile

SpecManifest == InitManifest /\ [][NextManifest]_vars

\* the text of a line without its line end
LineText(line) ==
    IF line # <<>> /\ line[Len(line)] = "\n"
    THEN SubSeq(line, 1, Len(line) - 1) ELSE line

\* s is line without the white space at its two ends
IsStripOf(s, line) ==
    /\ \E a \in 0..Len(line) :
          /\ a + Len(s) <= Len(line)
          /\ s = SubSeq(line, a + 1, a + Len(s))
          /\ \A k \in 1..Len(line) :
                (k <= a \/ k > a + Len(s)) => line[k] \in {" ", "\n"}
    /\ s # <<>> => s[1] \notin {" ", "\n"} /\ s[Len(s)] \notin {" ", "\n"}

\* the manifest on disk, no lines when there is none
ManifestContent ==
    IF ManifestPath \in DOMAIN fs THEN fs[ManifestPath].content ELSE <<>>

HasSpaceRaw(line) == \E i \in 1..Len(line) : line[i] = " "
JoinsRaw(rec, line) ==
    /\ Len(rec) = 2
    /\ ~HasSpaceRaw(rec[1])
    /\ rec[1] \o <<" ">> \o rec[2] = LineText(line)

HasSpaceInside(line) ==
    \E i, j, k \in 1..Len(line) :
        /\ i < j /\ j < k /\ line[j] = " "
        /\ line[i] \notin {" ", "\n"} /\ line[k] \notin {" ", "\n"}
JoinsStripped(rec, line) ==
    /\ Len(rec) = 2
    /\ ~HasSpaceRaw(rec[1])
    /\ IsStripOf(rec[1] \o <<" ">> \o rec[2], line)

\* chunks holds, in order, one record per line of content that has a space,
\* each record being its line split at the first space
RecordsMatchRaw(chunks, content) ==
    \E idx \in [1..Len(chunks) -> 1..Len(content)] :
        /\ \A k \in 1..Len(chunks) : HasSpaceRaw(content[idx[k]])
        /\ \A k \in 1..(Len(chunks) - 1) : idx[k] < idx[k + 1]
        /\ \A i \in 1..Len(content) :
              HasSpaceRaw(content[i]) => \E k \in 1..Len(chunks) : idx[k] = i
        /\ \A k \in 1..Len(chunks) : JoinsRaw(chunks[k], content[idx[k]])

\* the same for the lines that have a space between two other tokens, each
\* record being its stripped line split at the first space
RecordsMatchStripped(chunks, content) ==
    \E idx \in [1..Len(chunks) -> 1..Len(content)] :
        /\ \A k \in 1..Len(chunks) : HasSpaceInside(content[idx[k]])
        /\ \A k \in 1..(Len(chunks) - 1) : idx[k] < idx[k + 1]
        /\ \A i \in 1..Len(content) :
              HasSpaceInside(content[i])
                  => \E k \in 1..Len(chunks) : idx[k] = i
        /\ \A k \in 1..Len(chunks) : JoinsStripped(chunks[k], content[idx[k]])

\* ---- C12 (as stated): read_dependency_file returns, in file order, one
\* (kind, name) record for each manifest line that contains a space, the line
\* split at its first space and the remainder taken verbatim; other lines
\* give no record, a missing manifest gives none.
C12_RecordPerLineWithSpace ==
    last.op = "read_dependency_file" =>
        RecordsMatchRaw(last.chunks, ManifestContent)

\* ---- C12 (amended): read_dependency_file returns, in file order, one
\* (kind, name) record for each manifest line that still contains a space
\* after the white space at its two ends is stripped; the stripped line is
\* split at its first space and the rest of the stripped line is the name;
\* other lines give no record, a missing manifest gives none.
C12_RecordPerStrippedLineWithSpace ==
    last.op = "read_dependency_file" =>
        /\ RecordsMatchStripped(last.chunks, ManifestContent)
        /\ ManifestPath \notin DOMAIN fs => last.chunks = <<>>

\* C12 witness: a manifest whose first line has a space only at its start and
\* whose second line is a cimport record was read: one record, the second's
C12_Witness ==
    /\ last.op = "read_dependency_file"
    /\ ManifestContent = << <<" ", "badline", "\n">>,
                            <<"cimport", " ", "other", "\n">> >>
    /\ last.chunks = << << <<"cimport">>, <<"other">> >> >>

\* ======================================================= the include search
MaxSearches == 2

\* the file a search is made from, and the name searched for
SearchSource == <<D("proj"), <<"m", ".pyx">>>>
SearchName == <<"a">>

\* the places a candidate for SearchName can lie in
SearchFiles ==
    { <<D("proj"), <<"a", ".pxd">>>>,
      <<D("inc"), <<"a", ".pxd">>>>,
      <<D("inc"), <<"a">>, <<"__init__", ".pxd">>>>,
      <<D("lib"), <<"a", ".pxd">>>>,
      <<D("site"), <<"a", ".pxd">>>>,
      <<D("Includes"), <<"a", ".pxd">>>> }

InitSearch ==
    /\ language_level = NoLevel
    /\ future_directives = {}
    /\ modules = InitModules
    /\ scopes = InitScopes
    /\ pxds = <<>>
    /\ num_errors = 0
    /\ stack = <<>>
    /\ cimport_from_pyx = FALSE
    /\ \E present \in SUBSET SearchFiles : fs = FsOf(present)
    /\ requests = { SearchName }
    /\ search_cache = <<>>
    /\ calls = 0
    /\ hist = <<>>
    /\ last = NoLast
    /\ options = NoOptions
    /\ batch = NoBatch
    /\ rp = NoRun
    /\ audit = NoAudit

\* Context number ctx calls self.search_include_directories(qualified_name,
\* suffix, pos, include, sys_path); every Context of the process has the
\* same include directories and uses the one memo table of the module
Search(ctx, qualified_name, suffix, pos, include, sys_path) ==
    /\ UNCHANGED langvars
    /\ calls < MaxSearches
    /\ calls' = calls + 1
    /\ \E r \in { Context_search_include_directories(search_cache, fs,
                      qualified_name, suffix, pos, include, sys_path) } :
       \E query \in { <<qualified_name, suffix, pos, include, sys_path>> } :
          /\ search_cache' = r.cache
          /\ last' = [op |-> "search", ctx |-> ctx, query |-> query,
                      status |-> r.status, path |-> r.path,
                      probes |-> r.probes,
                      repeat |-> query \in DOMAIN hist]
          /\ hist' = IF query \in DOMAIN hist THEN hist
                     ELSE (query :> [path |-> r.path, ctx |-> ctx]) @@ hist
    /\ UNCHANGED <<modules, scopes, pxds, num_errors, stack, fs,
                   cimport_from_pyx, requests, options, batch, rp, audit>>

NextSearch ==
    \E ctx \in {1, 2}, qualified_name \in requests,
       pos \in {NoPos, FilePos(SearchSource)},
       include \in BOOLEAN, sys_path \in BOOLEAN :
          Search(ctx, qualified_name, ".pxd", pos, include, sys_path)

SpecSearch == InitSearch /\ [][NextSearch]_vars

\* the directories a query is to scan, in the order they are to be scanned
SearchOrder(F, pos, include, sys_path) ==
    (IF pos = NoPos THEN <<>>
     ELSE IF include THEN <<dirname(pos.filename)>>
     ELSE <<find_root_package_dir(F, pos.filename)>>)
    \o include_directories
    \o (IF sys_path THEN sys_path_dirs ELSE <<>>)
    \o <<standard_include_path>>

\* the files of directory dir that answer a query
Candidates(F, dir, qualified_name, suffix, include) ==
    LET names == split_dot(qualified_name)
        package_dir ==
            check_package_dir(F, dir, SubSeq(names, 1, Len(names) - 1))
        plain == { join(dir, Cat(qualified_name, suffix)) }
        packaged ==
            IF include \/ package_dir = NoPath THEN {}
            ELSE { join(package_dir, Cat(names[Len(names)], suffix)),
                   join(join(package_dir, names[Len(names)]),
                        Cat(<<"__init__">>, suffix)) }
    IN (plain \cup packaged) \cap DOMAIN F

C14_RepeatedQueryFromCache ==
    (last.op = "search" /\ last.repeat) =>
        /\ last.status = "ok"
        /\ last.path = hist[last.query].path
        /\ last.probes = 0

\* C14 witness: a query that found nothing was repeated by another Context
C14_Witness ==
    /\ last.op = "search"
    /\ last.repeat
    /\ last.path = NoPath
    /\ hist[last.query].path = NoPath
    /\ hist[last.query].ctx # last.ctx
    /\ last.probes = 0

(***************************************************************************)
(* Language level (Context.set_language_level, Main.py 90-104).            *)
(* A level argument is an int or a str; both are written as a record with  *)
(* the number the text starts with and the text that follows the number:   *)
(* 3 is Level("int", 3, ""), '3' is Level("str", 3, ""), and '3str' is     *)
(* Level("str", 3, "str").                                                 *)
(***************************************************************************)
MaxLevels == 3

Level(kind, n, t) == [kind |-> kind, value |-> n, tail |-> t]

\* the level arguments drawn by the model; 'x' is a str that int() rejects
Levels == {Level("int", 2, ""), Level("int", 3, ""), Level("str", 2, ""), Level("str", 3, ""), Level("str", 3, "str"), Level("str", 0, "x")}

\* the names imported from .Future at line 91
Future == [unicode_literals |-> "unicode_literals", print_function |-> "print_function", absolute_import |-> "absolute_import", division |-> "division", generator_stop |-> "generator_stop"]

\* level == '3str' (line 93)
is_3str(level) == level.kind = "str" /\ level.value = 3 /\ level.tail = "str"

\* a reader that adds unicode_literals on the '3str' branch as well
level_directives_mutant_3str_unicode(level, n) == (IF n >= 3 THEN {Future.unicode_literals} ELSE {}) \cup (IF n >= 3 THEN {Future.print_function, Future.absolute_import, Future.division, Future.generator_stop} ELSE {})

\* lines 92-100: the toggles collected for the argument level whose number is n
level_directives(level, n) == (IF (~is_3str(level)) /\ n >= 3 THEN {Future.unicode_literals} ELSE {}) \cup (IF n >= 3 THEN {Future.print_function, Future.absolute_import, Future.division, Future.generator_stop} ELSE {})

\* lines 90-104: a record of the Context fields after the call, or the
\* ValueError of int(level) at line 96 (a str that is not digits only) with
\* the fields untouched
set_language_level(M, ll, fd, level) ==
    IF (~is_3str(level)) /\ level.kind = "str" /\ level.tail # ""
    THEN [status |-> "ValueError", language_level |-> ll,
          future_directives |-> fd, modules |-> M]
    ELSE [status |-> "ok", language_level |-> level.value,
          future_directives |-> level_directives(level, level.value),
          modules |-> IF level.value >= 3
                      THEN (<<"builtins">> :> M[<<"__builtin__">>]) @@ M
                      ELSE M]

\* Context.__init__ (61-83) with language_level None or a level that int()
\* accepts: lines 80-81 call set_language_level on the fresh Context
InitLanguage ==
    /\ scopes = InitScopes
    /\ pxds = <<>>
    /\ num_errors = 0
    /\ stack = <<>>
    /\ fs = <<>>
    /\ cimport_from_pyx = FALSE
    /\ requests = {}
    /\ search_cache = <<>>
    /\ calls = 0
    /\ hist = <<>>
    /\ last = NoLast
    /\ options = NoOptions
    /\ batch = NoBatch
    /\ rp = NoRun
    /\ audit = NoAudit
    /\ \/ /\ language_level = NoLevel
          /\ future_directives = {}
          /\ modules = InitModules
       \/ \E level \in Levels :
             \E r \in {set_language_level(InitModules, NoLevel, {}, level)} :
                /\ r.status = "ok"
                /\ language_level = r.language_level
                /\ future_directives = r.future_directives
                /\ modules = r.modules

\* one call of set_language_level on the Context
SetLanguageLevel(level) ==
    /\ calls < MaxLevels
    /\ \E r \in {set_language_level(modules, language_level, future_directives, level)} :
          /\ language_level' = r.language_level
          /\ future_directives' = r.future_directives
          /\ modules' = r.modules
          /\ last' = [op |-> "set_language_level", level |-> level,
                      status |-> r.status]
    /\ calls' = calls + 1
    /\ hist' = Append(hist, level)
    /\ UNCHANGED <<scopes, pxds, num_errors, stack, fs, search_cache,
                   cimport_from_pyx, requests, options, batch, rp, audit>>

NextLanguage == \E level \in Levels : SetLanguageLevel(level)

SpecLanguage == InitLanguage /\ [][NextLanguage]_vars

\* C15 as stated: after set_language_level(3) exactly the five toggles are
\* active and the built-ins registry is reachable under '__builtin__' and
\* 'builtins'; after set_language_level('3str') the toggle set is the one of
\* level 3; after set_language_level(2) no toggle is active.
C15_LevelToggles ==
    last.op = "set_language_level" =>
       /\ last.level = Level("int", 3, "") =>
             /\ future_directives = {Future[k] : k \in DOMAIN Future}
             /\ <<"builtins">> \in DOMAIN modules
             /\ modules[<<"builtins">>] = modules[<<"__builtin__">>]
       /\ last.level = Level("str", 3, "str") =>
             future_directives = {Future[k] : k \in DOMAIN Future}
       /\ last.level = Level("int", 2, "") => future_directives = {}

\* C15 amended: after set_language_level(3) exactly the five toggles are
\* active and the built-ins registry is reachable under both names; after
\* set_language_level('3str') the language level is 3, the registry is
\* reachable under both names, and the toggle set is the one of level 3
\* without unicode literals; after set_language_level(2) no toggle is active.
C15_LevelTogglesStrKeepsLiterals ==
    last.op = "set_language_level" =>
       /\ last.level = Level("int", 3, "") =>
             /\ future_directives = {Future[k] : k \in DOMAIN Future}
             /\ language_level = 3
             /\ <<"builtins">> \in DOMAIN modules
             /\ modules[<<"builtins">>] = modules[<<"__builtin__">>]
       /\ last.level = Level("str", 3, "str") =>
             /\ future_directives = {Future[k] : k \in DOMAIN Future} \ {Future.unicode_literals}
             /\ language_level = 3
             /\ <<"builtins">> \in DOMAIN modules
             /\ modules[<<"builtins">>] = modules[<<"__builtin__">>]
       /\ last.level = Level("int", 2, "") =>
             (future_directives = {} /\ language_level = 2)

\* C15 witness: set_language_level('3str') was called on a Context that had
\* all five toggles active after set_language_level(3), and left four
C15_Witness ==
    /\ last.op = "set_language_level"
    /\ last.level = Level("str", 3, "str")
    /\ Len(hist) >= 2
    /\ hist[Len(hist) - 1] = Level("int", 3, "")
    /\ Cardinality(future_directives) = 4
    /\ Future.unicode_literals \notin future_directives

\* C16: in compile_multiple no Context is handed to run_pipeline for more
\* than one source: the runs of a batch were each given a different
\* Context, and the Context bound when a source is taken up has not been
\* given to any run before.
C16_ContextPerCompiledSource ==
    /\ \A i, j \in 1..Len(audit.handed) :
          audit.handed[i].context = audit.handed[j].context => i = j
    /\ \A i \in 1..Len(audit.handed) :
          /\ audit.handed[i].context \in 1..batch.contexts
          /\ batch.status = "running" =>
                audit.handed[i].context # batch.context

\* C16 witness: a batch compiled two different sources, the second in a
\* Context made after the first run
C16_Witness ==
    /\ Len(audit.handed) = 2
    /\ audit.handed[1].source # audit.handed[2].source
    /\ audit.handed[1].context = 1
    /\ audit.handed[2].context = 2
    /\ batch.contexts = 2

(***************************************************************************)
(* compile (Main.py 592-606).  The source argument is a str or a sequence  *)
(* of str: [str |-> TRUE, items |-> <<path>>] is the one path given as a   *)
(* str, [str |-> FALSE, items |-> paths] a list of paths.                  *)
(***************************************************************************)
\* the characters of the tokens that paths are written with
Characters == ("m" :> <<"m">>) @@ ("n" :> <<"n">>) @@ ("x" :> <<"x">>) @@ (".pyx" :> <<".", "p", "y", "x">>) @@ ("/" :> <<"/">>) @@ ("proj" :> <<"p", "r", "o", "j">>) @@ ("." :> <<".">>) @@ (".." :> <<".", ".">>)

\* what "for source in sources" (line 573 via 566) yields when sources is a
\* str: its characters, each one a str of its own
RECURSIVE iter_str(_)
iter_str(path) ==
    IF path = <<>> THEN <<>>
    ELSE LET c == Head(path)
             chars == (IF Len(c) = 1 THEN Characters[c[1]]
                       ELSE Characters[c[1]] \o Characters[c[2]])
                      \o (IF Len(path) > 1 /\ c # D("/") THEN <<"/">> ELSE <<>>)
         IN [i \in 1..Len(chars) |-> <<D(chars[i])>>] \o iter_str(Tail(path))

\* the source arguments drawn by the model
CompileInputs ==
    {[str |-> FALSE, items |-> sources] : sources \in requests}
    \cup UNION {{[str |-> TRUE, items |-> <<sources[i]>>] : i \in DOMAIN sources} : sources \in requests}

\* compile(source, options), lines 602-606
Compile(source) ==
    /\ last' = [op |-> "compile", source |-> source,
                timestamps |-> options.timestamps]
    /\ IF source.str /\ ~options.timestamps
       THEN CompileSingle(source.items[1])
       ELSE CompileMultipleStart(IF source.str THEN iter_str(source.items[1])
                                 ELSE source.items)

NextCompile ==
    \/ \E source \in CompileInputs : Compile(source)
    \/ CompileMultipleIterate
    \/ CompileMultipleReturn

SpecCompile == InitBatch /\ [][NextCompile]_vars

\* C17 as stated: compile of one path str without timestamp checking runs
\* the pipeline once, on that path, and returns a single CompilationResult;
\* in every other case, one path str with timestamp checking included,
\* compile works through the given source files and the CompilationResultSet
\* is keyed by the absolute paths of the given source files that were
\* compiled.
C17_CompileDispatch ==
    last.op = "compile" =>
       LET Given == {abspath(last.source.items[i]) : i \in DOMAIN last.source.items}
       IN IF last.source.str /\ ~last.timestamps
          THEN /\ batch.status # "running"
               /\ rp.exit \in {"returned", "raised"}
               /\ rp.source \in Given
          ELSE /\ batch.status \in {"running", "returned", "raised"}
               /\ DOMAIN batch.results \subseteq Given
               /\ DOMAIN audit.decided \subseteq Given
               /\ \A p \in DOMAIN batch.results : Count(audit.adds, p) = 1
               /\ \A p \in DOMAIN audit.adds : p \in DOMAIN batch.results

\* C18 as stated: the declaration-file search of a relative lookup is local
\* only: a file it finds lies in the directory derived from the position, in
\* a configured include directory or in the standard include directory,
\* never in a sys.path directory.
C18_RelativeSearchIsLocal ==
    (last.op = "find_module" /\ last.call.rel_search /\ last.call.rel_found) =>
        \A i \in 1..Len(sys_path_dirs) :
            ~(/\ Len(last.call.rel_path) >= Len(sys_path_dirs[i])
              /\ SubSeq(last.call.rel_path, 1, Len(sys_path_dirs[i]))
                    = sys_path_dirs[i])

\* C19 as stated: a find_module call with a relative base whose relative
\* declaration-file search found nothing leaves the base scope without a
\* new child, for both values of absolute_fallback.
C19_NoChildWithoutFile ==
    [][(/\ last'.op = "find_module"
        /\ calls' = calls + 1
        /\ last'.call.rel_search
        /\ ~last'.call.rel_found)
       => scopes'[last'.call.base].module_entries
            = scopes[last'.call.base].module_entries]_vars

\* C19 amended: a find_module call with a relative base whose relative
\* declaration-file search found nothing leaves the base scope without a
\* new child when absolute_fallback is set and module_name is not itself a
\* dotted name under the base's qualified name; when absolute_fallback is
\* unset the base gains at most the child that the absolute lookup of the
\* qualified name creates, and keeps the children it had.
C19_NoChildWithoutFileOnFallback ==
    [][(/\ last'.op = "find_module"
        /\ calls' = calls + 1
        /\ last'.call.rel_search
        /\ ~last'.call.rel_found)
       => LET base == last'.call.base
              before == scopes[base].module_entries
              after == scopes'[base].module_entries
              under == scopes[base].qualified_name \o <<".">>
              name == last'.call.module_name
          IN /\ \A k \in DOMAIN before : k \in DOMAIN after /\ after[k] = before[k]
             /\ (/\ last'.call.absolute_fallback
                 /\ ~(Len(name) > Len(under) /\ SubSeq(name, 1, Len(under)) = under))
                => after = before
             /\ ~last'.call.absolute_fallback
                => /\ last'.call.qualified_name = under \o name
                   /\ Cardinality(DOMAIN after \ DOMAIN before) <= 1]_vars

\* C19 witness: a relative call with absolute_fallback set found no
\* declaration file, resolved the plain module name, and the base has no
\* child
C19_Witness ==
    /\ last.op = "find_module"
    /\ last.call.rel_search
    /\ ~last.call.rel_found
    /\ last.call.absolute_fallback
    /\ last.call.base # NoScope
    /\ last.call.qualified_name = last.call.module_name
    /\ last.outcome = "returned"
    /\ scopes[last.call.base].module_entries = <<>>

\* C20 as stated: a scope's pxd_file_loaded flag is set only by a call whose
\* declaration-file parse succeeded or whose required search (need_pxd set)
\* confirmed the absence: the scope of a call whose parse failed with a
\* CompileError is not loaded when the call returns, and a call that
\* returns after a search with need_pxd unset that found nothing leaves its
\* scope as unloaded as it was.
C20_LoadedOnlyByParseOrRequiredMiss ==
    [][/\ (last'.op = "find_module" /\ last'.parse = "CompileError")
          => ~scopes'[last'.scope].pxd_file_loaded
       /\ (/\ last'.op = "find_module"
           /\ calls' = calls + 1
           /\ last'.outcome = "returned"
           /\ ~last'.call.need_pxd
           /\ scopes'[last'.scope].pxd_file_loaded)
          => (last'.scope <= Len(scopes) /\ scopes[last'.scope].pxd_file_loaded)]_vars

\* C20 amended: a scope's pxd_file_loaded flag goes from unset to set only in
\* a find_module call that found the declaration file (line 207, before the
\* parse) or whose required search confirmed the absence (line 200); the
\* flag set for a found file stays set when the parse fails with a
\* CompileError as when it succeeds, and a call that returns after a search
\* with need_pxd unset that found nothing leaves its scope as unloaded as it
\* was.
C20_LoadedByFoundFileOrRequiredMiss ==
    [][/\ \A i \in 1..Len(scopes') :
             (/\ scopes'[i].pxd_file_loaded
              /\ (i > Len(scopes) \/ ~scopes[i].pxd_file_loaded))
             => /\ last'.op = "find_module"
                /\ calls' = calls + 1
                /\ last'.scope = i
                /\ \/ last'.outcome = "parsing"
                   \/ last'.outcome = "returned" /\ last'.missing /\ last'.call.need_pxd
       /\ (last'.op = "find_module" /\ last'.parse \in {"ok", "CompileError"})
          => /\ scopes[last'.scope].pxd_file_loaded
             /\ scopes'[last'.scope].pxd_file_loaded
       /\ (/\ last'.op = "find_module"
           /\ calls' = calls + 1
           /\ last'.outcome = "returned"
           /\ ~last'.call.need_pxd
           /\ scopes'[last'.scope].pxd_file_loaded)
          => (last'.scope <= Len(scopes) /\ scopes[last'.scope].pxd_file_loaded)]_vars

\* C20 witness: the parse of a declaration file failed with a CompileError
\* and the scope is loaded, in a Context where a call with need_pxd unset
\* found nothing and left another scope unloaded
C20_Witness ==
    /\ last.op = "find_module"
    /\ last.parse = "CompileError"
    /\ scopes[last.scope].pxd_file_loaded
    /\ \E q \in DOMAIN hist :
          /\ hist[q].searches >= 1
          /\ hist[q].found = 0
          /\ hist[q].missreq = 0
          /\ \E s \in hist[q].ret : s # NoScope /\ ~scopes[s].pxd_file_loaded

\* C21 as stated: in every step pxds keeps the entries it has (no entry of
\* one module is overwritten by another module's), a call whose parse
\* succeeded leaves an entry whose scope is the scope of that call, and a
\* call whose parse failed leaves no entry for its scope.
C21_PxdsEntryPerParsedModule ==
    [][/\ \A k \in DOMAIN pxds : k \in DOMAIN pxds' /\ pxds'[k] = pxds[k]
       /\ (last'.op = "find_module" /\ last'.parse = "ok")
          => \E k \in DOMAIN pxds' : pxds'[k] = last'.scope
       /\ (last'.op = "find_module" /\ last'.parse = "CompileError")
          => \A k \in DOMAIN pxds' : pxds'[k] # last'.scope]_vars

\* C22 as stated: no run_pipeline call returns or raises with the listing
\* file that setup_errors opened still open.
C22_ListingClosedOnExit ==
    rp.exit \in {"returned", "raised"} => rp.listing # "open"

\* C23 as stated: when teardown_errors invalidated the main artifact of a
\* failed run, the artifact is empty, its metadata (modification time and
\* permission bits) is its own as it was before the invalidation, and the
\* result's reference to it is cleared.
C23_InvalidationKeepsOwnMetadata ==
    (rp.exit = "returned" /\ rp.castrate = "ok" /\ rp.c_stat.mode # "none") =>
        /\ exists(fs, rp.c_path)
        /\ fs[rp.c_path].content = <<>>
        /\ fs[rp.c_path].mode = rp.c_stat.mode
        /\ fs[rp.c_path].mtime = rp.c_stat.mtime
        /\ rp.c_file = NoPath

\* C24: a find_module call made while declaration files are being parsed
\* that resolves to the scope of one of them returns that scope at once: it
\* enters no parse, and makes no search for and no parse of the resolved
\* name; the scopes being parsed are pairwise different, so the nesting is
\* no deeper than there are modules with a declaration file.
C24_ReentrantCallReturnsScope ==
    [][/\ (/\ last'.op = "find_module"
           /\ calls' = calls + 1
           /\ \E i \in 1..Len(stack) : stack[i].scope = last'.scope)
          => /\ last'.outcome = "returned"
             /\ stack' = stack
             /\ scopes[last'.scope].pxd_file_loaded
             /\ HistGet(hist', last'.call.qualified_name).searches
                  = HistGet(hist, last'.call.qualified_name).searches
             /\ HistGet(hist', last'.call.qualified_name).parses
                  = HistGet(hist, last'.call.qualified_name).parses
       /\ \A i, j \in 1..Len(stack') :
             stack'[i].scope = stack'[j].scope => i = j]_vars

\* C24 witness: an import cycle: while the declaration file of one module is
\* parsed a second one is entered, and from there a call for the first
\* module returned its scope
C24_Witness ==
    /\ Len(stack) = 2
    /\ last.op = "find_module"
    /\ last.outcome = "returned"
    /\ last.scope = stack[1].scope
    /\ last.call.qualified_name = stack[1].qualified_name
    /\ calls = 3

\* C25 as stated: in a batch whose options leave annotate unset, the
\* annotate setting a source is compiled with depends only on that source's
\* own companion HTML file: it is True when that file exists and starts with
\* the annotator's marker, and unset otherwise, whatever the companion files
\* of the sources compiled before it.
C25_AnnotateFromOwnCompanion ==
    (options.annotate = "None" /\ batch.status # "idle") =>
        \A i \in 1..Len(audit.handed) :
            LET html == replace_suffix(audit.handed[i].source, ".html")
            IN audit.handed[i].annotate =
                 IF exists(fs, html)
                    /\ fs[html].content = << <<"<!-- Generated by Cython">> >>
                 THEN "True" ELSE "None"

====
